---- MODULE Spec2Model ----
(***************************************************************************)
(* A model of the knitout interpreter's execution engine:                  *)
(*   - the carriage-pass assembler (Carriage_Pass.py),                     *)
(*   - the executer that routes body lines through it (knitout_execution), *)
(*   - the program container and its line numbering (knitout_program.py).  *)
(* The specifications share the variables: SpecCP drives one carriage pass *)
(* through its public operations, Spec runs the executer over a source     *)
(* body (SpecSnap with snapshot targets, SpecDebug with a debugger,        *)
(* SpecTwin twice over the same body, SpecRerun twice on one executer),    *)
(* SpecProg mutates a program container; SpecLoop, SpecHeader,             *)
(* SpecHeaderLines, SpecText, SpecParser, SpecBreakPoint, SpecRack,        *)
(* SpecCopy and SpecSwap each drive one unit.                              *)
(***************************************************************************)
EXTENDS Integers, Sequences, FiniteSets, TLC

VARIABLES
    cp,                 \* SpecCP: the carriage pass under construction (NoPass before creation)
    cp_result,          \* SpecCP: outcome of the last operation on cp
    machine,            \* Spec: the knitting machine state
    body,               \* Spec: the source program body read so far (line objects in order)
    src_header,         \* Spec: number of header lines of the source program
    line_number,        \* Spec: current line number (_line_number) of each source body line object
    executed_instructions, \* Spec: the executed program
    carriage_passes,    \* Spec: the recorded carriage passes
    current_carriage_pass, \* Spec: the pass being formed (NoPass if none)
    status,             \* Spec: "running", "done" or "error"
    snapshot_targets,   \* Spec: Knitout_Executer._snapshot_targets
    snapshots,          \* Spec: Knitout_Executer.snapshots, by line number
    debugger,           \* Spec: whether a Knitout_Debugger is attached to the executer
    left_most_position, \* Spec: Knitout_Executer._left_most_position (NoNumber for None)
    right_most_position, \* Spec: Knitout_Executer._right_most_position (NoNumber for None)
    debug_calls,        \* Spec: the calls of the debugger's hooks and of the methods they wrap, in order
    first_run,          \* SpecTwin, SpecRerun: the starting machine and the results of the first run
    raised,             \* Spec: the line carried by the Knitout_Machine_StateError that ended the run (NoLine if none)
    lines,              \* SpecProg: heap of line objects
    program,            \* SpecProg: Knitout_Program._program, as object ids
    other_program,      \* SpecProg: a second program, as object ids
    ops,                \* SpecProg: number of program operations done
    loop,               \* SpecLoop: one Knitout_Loop and the outcome of the last call on it
    machine_header,     \* SpecHeader: a Knitting_Machine_Header, the program it reads, the result
    round_trip,         \* SpecText: a program, its serialized text and the parse of that text
    bp_program,         \* SpecBreakPoint: a line sequence and the Knitout_Program built from it
    rack_op,            \* SpecRack: a rack value in quarters and the Rack_Instruction parsed from it
    deep_copy,          \* SpecCopy: a line, its deep copy and the creation counter
    swap_op             \* SpecSwap: a program with its source name, a new line and a swap_line call

varsCP == <<cp, cp_result>>
varsExec == <<machine, body, src_header, line_number, executed_instructions,
              carriage_passes, current_carriage_pass, status, snapshot_targets, snapshots,
              raised, debugger, debug_calls, first_run, left_most_position,
              right_most_position>>
varsProg == <<lines, program, other_program, ops>>
varsPure == <<bp_program, rack_op, deep_copy, swap_op>>
varsUnit == <<loop, machine_header, round_trip, bp_program, rack_op, deep_copy, swap_op>>
vars == <<cp, cp_result, machine, body, src_header, line_number, executed_instructions,
          carriage_passes, current_carriage_pass, status, lines, program, other_program, ops,
          loop, snapshot_targets, snapshots, machine_header, round_trip, raised,
          debugger, debug_calls, first_run, bp_program, rack_op, deep_copy, swap_op,
          left_most_position, right_most_position>>

----------------------------------------------------------------------------
(* Bounds of the model *)

\* needle positions range over 1..MaxPos
MaxPos == 2
\* number of instructions one carriage pass may hold in SpecCP
MaxPassLen == 3
\* number of source body lines the executer reads
MaxBody == 3
\* number of line objects the caller makes, and of lines a program may hold, in SpecProg
MaxLines == 2
\* line objects in a run of SpecProg, copies and default version lines included
MaxObjects == 3
\* number of lines the second program may take in SpecProg
MaxOtherLines == 1
\* number of program operations in a run of SpecProg
MaxOps == 4
\* SpecLoop: longest transfer history of the loop
MaxTransfers == 2
\* SpecHeader: most header lines of a program
MaxHeaderLines == 3
\* SpecText: most lines of a serialized program
MaxTextLines == 2
\* longest line sequence a breakpoint program is built from
MaxBreakPointLines == 3
\* largest rack value of a parsed rack line, in quarters
MaxRackQuarters == 28

----------------------------------------------------------------------------
(* Needles and instructions *)

Leftward == "-"
Rightward == "+"
NoDirection == "none"

Needle(is_front, position, is_slider) ==
    [is_front |-> is_front, position |-> position, is_slider |-> is_slider]

NoNeedle == Needle(TRUE, 0, FALSE)

\* Needle_Specification.slot_by_racking: front needles keep their slot, back needles shift by the rack
slot_by_racking(n, rack) == IF n.is_front THEN n.position ELSE n.position + rack

\* A knitout line. line is the identity of the object (its index in the source body, 0 if none);
\* arg is the carrier id of a carrier operation or the rack value of a rack, in quarters.
Line(kind, needle, direction, carrier_set, needle_2, arg) ==
    [kind |-> kind, needle |-> needle, direction |-> direction, carrier_set |-> carrier_set,
     needle_2 |-> needle_2, arg |-> arg, line |-> 0]

Yarn_to_Needle(kind, n, d, cs) == Line(kind, n, d, cs, NoNeedle, 0)
Split_Instruction(n, d, n2, cs) == Line("split", n, d, cs, n2, 0)
Xfer_Instruction(n, n2) == Line("xfer", n, NoDirection, 0, n2, 0)
Drop_Instruction(n) == Line("drop", n, NoDirection, 0, NoNeedle, 0)
Kick_Instruction(position, d, cs) == Line("kick", Needle(TRUE, position, FALSE), d, cs, NoNeedle, 0)
Carrier_Instruction(kind, c) == Line(kind, NoNeedle, NoDirection, 0, NoNeedle, c)
Rack_Instruction(value) == Line("rack", NoNeedle, NoDirection, 0, NoNeedle, value)
Pause_Instruction == Line("pause", NoNeedle, NoDirection, 0, NoNeedle, 0)
Knitout_Comment_Line == Line("comment", NoNeedle, NoDirection, 0, NoNeedle, 0)

\* isinstance tests of the class hierarchy in needle_instructions.py
IsNeedle_Instruction(i) == i.kind \in {"knit", "tuck", "miss", "kick", "split", "xfer", "drop"}
IsKnit_Pass_Instruction(i) == i.kind \in {"knit", "tuck", "kick"}
IsMiss_Instruction(i) == i.kind \in {"miss", "kick"}
IsYarn_to_Needle_Instruction(i) == i.kind \in {"knit", "tuck", "miss", "kick", "split"}
IsXfer_Instruction(i) == i.kind = "xfer"

\* isinstance(other, self.__class__)
IsInstanceOfClassOf(other, self) ==
    \/ other.kind = self.kind
    \/ self.kind = "miss" /\ IsMiss_Instruction(other)

\* Needle_Instruction.compatible_in_carriage_pass with the Knit_Pass_Instruction override
compatible_in_carriage_pass(self, other) ==
    IF IsKnit_Pass_Instruction(self)
    THEN IsKnit_Pass_Instruction(other)
    ELSE IsInstanceOfClassOf(other, self)

----------------------------------------------------------------------------
(* Carriage pass *)

NoPass == [rack |-> 0, all_needle_rack |-> FALSE, instructions |-> <<>>,
           needles_to_instruction |-> <<>>, direction |-> NoDirection]

\* Carriage_Pass.__init__ / carriage_pass_typed_to_first_instruction
carriage_pass_typed_to_first_instruction(first, rack, all_needle_rack) ==
    [rack |-> rack, all_needle_rack |-> all_needle_rack,
     instructions |-> <<first>>,
     needles_to_instruction |-> [n \in {first.needle} |-> first],
     direction |-> NoDirection]

first_instruction(p) == p.instructions[1]
last_instruction(p) == p.instructions[Len(p.instructions)]
last_needle(p) == last_instruction(p).needle
first_needle(p) == first_instruction(p).needle
xfer_pass(p) == IsXfer_Instruction(first_instruction(p))
needle_slots(p) == {slot_by_racking(p.instructions[k].needle, p.rack) : k \in 1..Len(p.instructions)}
instruction_on_slot(p, slot) == slot \in needle_slots(p)

Min(a, b) == IF a <= b THEN a ELSE b
Max(a, b) == IF a >= b THEN a ELSE b

\* Carriage_Pass.leftmost_slot and rightmost_slot: of the first and the last needle
leftmost_slot(p) ==
    Min(slot_by_racking(first_needle(p), p.rack), slot_by_racking(last_needle(p), p.rack))
rightmost_slot(p) ==
    Max(slot_by_racking(first_needle(p), p.rack), slot_by_racking(last_needle(p), p.rack))

\* the least and the greatest slot of all needles of the pass
leftmost_slot_of_all_needles(p) ==
    CHOOSE s \in needle_slots(p) : \A t \in needle_slots(p) : s <= t
rightmost_slot_of_all_needles(p) ==
    CHOOSE s \in needle_slots(p) : \A t \in needle_slots(p) : s >= t

\* can_add_instruction without the test that the needle is not yet used in the pass
can_add_instruction_reusing_needles(p, instruction, rack, all_needle_rack) ==
    IF \/ rack # p.rack
       \/ all_needle_rack # p.all_needle_rack
       \/ ~compatible_in_carriage_pass(first_instruction(p), instruction)
    THEN FALSE
    ELSE IF IsYarn_to_Needle_Instruction(first_instruction(p)) /\ IsYarn_to_Needle_Instruction(instruction)
    THEN IF \/ first_instruction(p).direction # instruction.direction
            \/ first_instruction(p).carrier_set # instruction.carrier_set
         THEN FALSE
         ELSE IF /\ p.all_needle_rack
                 /\ instruction.needle.is_front # last_needle(p).is_front
                 /\ slot_by_racking(instruction.needle, p.rack) = slot_by_racking(last_needle(p), p.rack)
         THEN TRUE
         ELSE IF first_instruction(p).direction = Leftward
         THEN slot_by_racking(last_needle(p), p.rack) > slot_by_racking(instruction.needle, p.rack)
         ELSE slot_by_racking(last_needle(p), p.rack) < slot_by_racking(instruction.needle, p.rack)
    ELSE TRUE

can_add_instruction(p, instruction, rack, all_needle_rack) ==
    IF \/ rack # p.rack
       \/ all_needle_rack # p.all_needle_rack
       \/ instruction.needle \in DOMAIN p.needles_to_instruction
       \/ ~compatible_in_carriage_pass(first_instruction(p), instruction)
    THEN FALSE
    ELSE IF IsYarn_to_Needle_Instruction(first_instruction(p)) /\ IsYarn_to_Needle_Instruction(instruction)
    THEN IF \/ first_instruction(p).direction # instruction.direction
            \/ first_instruction(p).carrier_set # instruction.carrier_set
         THEN FALSE
         ELSE IF /\ p.all_needle_rack
                 /\ instruction.needle.is_front # last_needle(p).is_front
                 /\ slot_by_racking(instruction.needle, p.rack) = slot_by_racking(last_needle(p), p.rack)
         THEN TRUE
         ELSE IF first_instruction(p).direction = Leftward
         THEN slot_by_racking(last_needle(p), p.rack) > slot_by_racking(instruction.needle, p.rack)
         ELSE slot_by_racking(last_needle(p), p.rack) < slot_by_racking(instruction.needle, p.rack)
    ELSE TRUE

\* dict assignment d[key] = value
DictSet(d, key, value) == [k \in (DOMAIN d) \cup {key} |-> IF k = key THEN value ELSE d[k]]

\* the pass after add_instruction; the call returns can_add_instruction
add_instruction(p, instruction, rack, all_needle_rack) ==
    IF can_add_instruction(p, instruction, rack, all_needle_rack)
    THEN [p EXCEPT !.instructions = Append(@, instruction),
                   !.needles_to_instruction = DictSet(@, instruction.needle, instruction)]
    ELSE p

can_merge_pass(p, next) ==
    can_add_instruction(p, first_instruction(next), next.rack, next.all_needle_rack)

\* the loop of merge_carriage_pass over next.instructions[k..]: stops at the first failed assert
RECURSIVE MergeFrom(_, _, _)
MergeFrom(p, next, k) ==
    IF k > Len(next.instructions) THEN [pass |-> p, result |-> "True"]
    ELSE IF can_add_instruction(p, next.instructions[k], next.rack, next.all_needle_rack)
    THEN MergeFrom(add_instruction(p, next.instructions[k], next.rack, next.all_needle_rack), next, k + 1)
    ELSE [pass |-> p, result |-> "AssertionError"]

merge_carriage_pass(p, next) ==
    IF ~can_merge_pass(p, next) THEN [pass |-> p, result |-> "False"]
    ELSE MergeFrom(p, next, 1)

\* carriage_pass_of_instructions: add_instruction results are ignored
RECURSIVE PassOfFrom(_, _, _, _, _)
PassOfFrom(p, instructions, k, rack, all_needle_rack) ==
    IF k > Len(instructions) THEN p
    ELSE PassOfFrom(add_instruction(p, instructions[k], rack, all_needle_rack),
                    instructions, k + 1, rack, all_needle_rack)

carriage_pass_of_instructions(instructions, rack, all_needle_rack) ==
    PassOfFrom(carriage_pass_typed_to_first_instruction(instructions[1], rack, all_needle_rack),
               instructions, 2, rack, all_needle_rack)

\* dict comprehension {i.needle: i for i in seq}: the last instruction on a needle wins
DictOf(seq) ==
    [n \in {seq[k].needle : k \in 1..Len(seq)} |->
        seq[CHOOSE k \in 1..Len(seq) :
               /\ seq[k].needle = n
               /\ \A j \in (k+1)..Len(seq) : seq[j].needle # n]]

\* the keys of that dict in insertion order (first occurrence of each needle)
RECURSIVE KeysOf(_)
KeysOf(seq) ==
    IF seq = <<>> THEN <<>>
    ELSE LET rest == KeysOf(SubSeq(seq, 1, Len(seq) - 1))
             n == seq[Len(seq)].needle
         IN IF \E k \in 1..Len(rest) : rest[k] = n THEN rest ELSE Append(rest, n)

\* n1 is placed before n2 by Carriage_Pass_Direction.sort_needles: by slot in the
\* direction, a front needle before the back needle of the same slot when ascending
SortsBefore(direction, n1, n2, rack) ==
    LET s1 == slot_by_racking(n1, rack)
        s2 == slot_by_racking(n2, rack)
        asc == \/ s1 < s2
               \/ s1 = s2 /\ n1.is_front /\ ~n2.is_front
        desc == \/ s1 > s2
                \/ s1 = s2 /\ ~n1.is_front /\ n2.is_front
    IN IF direction = Leftward THEN desc ELSE asc

RECURSIVE InsertNeedle(_, _, _, _)
InsertNeedle(sorted, n, direction, rack) ==
    IF sorted = <<>> THEN <<n>>
    ELSE IF SortsBefore(direction, n, sorted[1], rack)
    THEN <<n>> \o sorted
    ELSE <<sorted[1]>> \o InsertNeedle(Tail(sorted), n, direction, rack)

RECURSIVE sort_needles(_, _, _)
sort_needles(direction, needles, rack) ==
    IF needles = <<>> THEN <<>>
    ELSE InsertNeedle(sort_needles(direction, SubSeq(needles, 1, Len(needles) - 1), rack),
                      needles[Len(needles)], direction, rack)

\* Carriage_Pass.add_kicks: the pass afterwards and how the call ended
add_kicks(p, kicks) ==
    IF ~IsKnit_Pass_Instruction(first_instruction(p))
    THEN [pass |-> p, result |-> "ValueError"]
    ELSE IF \E k \in 1..Len(kicks) : instruction_on_slot(p, kicks[k].needle.position)
    THEN [pass |-> p, result |-> "IndexError"]
    ELSE IF \E k \in 1..Len(kicks) : first_instruction(p).carrier_set # kicks[k].carrier_set
    THEN [pass |-> p, result |-> "ValueError"]
    ELSE LET all_instructions == p.instructions \o kicks
             needles_to_instruction == DictOf(all_instructions)
             sorted_needles == sort_needles(first_instruction(p).direction, KeysOf(all_instructions), p.rack)
             sorted_instructions == [k \in 1..Len(sorted_needles) |-> needles_to_instruction[sorted_needles[k]]]
         IN [pass |-> [p EXCEPT !.instructions = sorted_instructions,
                                !.needles_to_instruction = DictOf(sorted_instructions)],
             result |-> "None"]

----------------------------------------------------------------------------
(* SpecCP: one carriage pass driven through its operations *)

Positions == 1..MaxPos
Directions == {Leftward, Rightward}
CarrierSets == {1, 2}
BedNeedles == {Needle(f, p, FALSE) : f \in BOOLEAN, p \in Positions}
Racks == {0, 1}

NeedleInstructions ==
    {Yarn_to_Needle(k, n, d, cs) : k \in {"knit", "tuck", "miss"}, n \in BedNeedles,
                                   d \in Directions, cs \in CarrierSets}
    \cup {Split_Instruction(n, d, Needle(~n.is_front, n.position, FALSE), cs) :
             n \in BedNeedles, d \in Directions, cs \in CarrierSets}
    \cup {Kick_Instruction(p, d, cs) : p \in Positions, d \in Directions, cs \in CarrierSets}
    \cup {Xfer_Instruction(n, Needle(~n.is_front, n.position, FALSE)) : n \in BedNeedles}
    \cup {Drop_Instruction(n) : n \in BedNeedles}

Kicks == {i \in NeedleInstructions : i.kind = "kick"}

InitCP == cp = NoPass /\ cp_result = "none"

NewPass(i, r, a) ==
    /\ cp = NoPass
    /\ cp' = carriage_pass_typed_to_first_instruction(i, r, a)
    /\ cp_result' = "created"
    /\ UNCHANGED <<varsExec, varsProg, varsUnit>>

AddInstruction(i, r, a) ==
    /\ cp # NoPass
    /\ Len(cp.instructions) < MaxPassLen
    /\ cp' = add_instruction(cp, i, r, a)
    /\ cp_result' = IF can_add_instruction(cp, i, r, a) THEN "True" ELSE "False"
    /\ UNCHANGED <<varsExec, varsProg, varsUnit>>

\* the passes of two instructions that merge_carriage_pass is given as its argument
NextPasses ==
    {carriage_pass_of_instructions(<<i1, i2>>, r, a) :
        i1 \in NeedleInstructions, i2 \in NeedleInstructions, r \in Racks, a \in BOOLEAN}

MergePass(next) ==
    /\ cp # NoPass
    /\ Len(cp.instructions) + Len(next.instructions) <= MaxPassLen
    /\ LET m == merge_carriage_pass(cp, next)
       IN /\ cp' = m.pass
          /\ cp_result' = m.result
    /\ UNCHANGED <<varsExec, varsProg, varsUnit>>

AddKicks(kicks) ==
    /\ cp # NoPass
    /\ Len(cp.instructions) + Len(kicks) <= MaxPassLen
    /\ LET m == add_kicks(cp, kicks)
       IN /\ cp' = m.pass
          /\ cp_result' = m.result
    /\ UNCHANGED <<varsExec, varsProg, varsUnit>>

NextCP ==
    \/ \E i \in NeedleInstructions, r \in Racks, a \in BOOLEAN : NewPass(i, r, a)
    \/ \E i \in NeedleInstructions, r \in Racks, a \in BOOLEAN : AddInstruction(i, r, a)
    \/ \E next \in NextPasses : MergePass(next)
    \/ \E k1 \in Kicks : AddKicks(<<k1>>)
    \/ \E k1 \in Kicks, k2 \in Kicks : AddKicks(<<k1, k2>>)

IdleExec ==
    /\ machine = 0 /\ body = <<>> /\ src_header = 0 /\ line_number = <<>>
    /\ executed_instructions = <<>> /\ carriage_passes = <<>>
    /\ current_carriage_pass = NoPass /\ status = "idle"
    /\ snapshot_targets = {} /\ snapshots = <<>> /\ raised = 0
    /\ debugger = FALSE /\ debug_calls = <<>> /\ first_run = 0
    /\ left_most_position = -1 /\ right_most_position = -1

IdleProg == lines = <<>> /\ program = <<>> /\ other_program = <<>> /\ ops = 0

IdleCP == cp = NoPass /\ cp_result = "none"

IdleLoop == loop = <<>>

IdleHeader == machine_header = <<>>

IdleText == round_trip = <<>>

IdleBreakPoint == bp_program = <<>>

IdleRack == rack_op = <<>>

IdleCopy == deep_copy = <<>>

IdleSwap == swap_op = <<>>

IdlePure == IdleBreakPoint /\ IdleRack /\ IdleCopy /\ IdleSwap

IdleUnit == IdleLoop /\ IdleHeader /\ IdleText /\ IdlePure

InitSpecCP == InitCP /\ IdleExec /\ IdleProg /\ IdleUnit

SpecCP == InitSpecCP /\ [][NextCP]_vars

----------------------------------------------------------------------------
(* The knitting machine: the operations the engine calls *)

NoNumber == -1

\* Rack_Instruction: the rack value is held in quarters; a quarter fraction is all-needle
all_needle_rack_of(value) == (value % 4) # 0
\* the integer rack taken by cutting the fraction off (toward zero)
rack_of_truncating(value) == IF value >= 0 THEN value \div 4 ELSE -((-value) \div 4)

rack_of(value) == IF value >= 0 THEN (value + 2) \div 4 ELSE value \div 4
\* Rack_Instruction.rack_instruction_from_int_specification
rack_value_from_int_specification(rack, all_needle_rack) ==
    4 * rack + (IF all_needle_rack THEN 1 ELSE 0)

\* Knitting_Machine.get_aligned_needle: the opposite-bed needle under the current racking
get_aligned_needle(m, n, aligned_slider) ==
    IF n.is_front THEN Needle(FALSE, n.position - m.rack, aligned_slider)
    ELSE Needle(TRUE, n.position + m.rack, aligned_slider)

\* Python's bool != int comparison of aligned_needle.is_front with needle_2.position
BoolDiffersFromInt(b, i) == (IF b THEN 1 ELSE 0) # i

\* Two_Needle_Instruction._validate_aligned_needle raises ValueError
validate_aligned_needle_raises(m, instruction) ==
    LET aligned_needle == get_aligned_needle(m, instruction.needle, instruction.needle_2.is_slider)
    IN /\ aligned_needle.position # instruction.needle_2.position
       /\ BoolDiffersFromInt(aligned_needle.is_front, instruction.needle_2.position)

Outcome(m, updated) == [machine |-> m, updated |-> updated, error |-> FALSE]
Raises(m) == [machine |-> m, updated |-> FALSE, error |-> TRUE]

CarrierActive(m, cs) == cs \in m.active

\* instruction.will_update_machine_state of the carrier operations and of rack
will_update_machine_state(m, instruction) ==
    CASE instruction.kind \in {"in", "inhook"} -> instruction.arg \notin m.active
      [] instruction.kind \in {"out", "outhook"} -> instruction.arg \in m.active
      [] instruction.kind = "releasehook" -> m.hooked # 0
      [] instruction.kind = "rack" ->
            \/ m.rack # rack_of(instruction.arg)
            \/ m.all_needle_rack # all_needle_rack_of(instruction.arg)
      [] OTHER -> FALSE

\* instruction.execute(machine): the machine afterwards, the returned flag, or an error;
\* capture_execution_context turns whatever execute raises into a Knitout_Machine_StateError
\* that carries the line
execute(m, instruction) ==
    CASE instruction.kind = "knit" ->
            IF ~CarrierActive(m, instruction.carrier_set) THEN Raises(m)
            ELSE Outcome([m EXCEPT !.loops = @ \cup {instruction.needle}], TRUE)
      [] instruction.kind = "tuck" ->
            IF ~CarrierActive(m, instruction.carrier_set) THEN Raises(m)
            ELSE Outcome([m EXCEPT !.loops = @ \cup {instruction.needle}], TRUE)
      [] instruction.kind \in {"miss", "kick"} ->
            IF ~CarrierActive(m, instruction.carrier_set) THEN Raises(m)
            ELSE Outcome(m, TRUE)
      [] instruction.kind = "split" ->
            IF validate_aligned_needle_raises(m, instruction) THEN Raises(m)
            ELSE IF ~CarrierActive(m, instruction.carrier_set) THEN Raises(m)
            ELSE Outcome([m EXCEPT !.loops =
                            IF instruction.needle \in @
                            THEN @ \cup {get_aligned_needle(m, instruction.needle, FALSE)}
                            ELSE @ \cup {instruction.needle}], TRUE)
      [] instruction.kind = "xfer" ->
            IF validate_aligned_needle_raises(m, instruction) THEN Raises(m)
            ELSE IF instruction.needle \in m.loops
            THEN Outcome([m EXCEPT !.loops = (@ \ {instruction.needle})
                             \cup {get_aligned_needle(m, instruction.needle, instruction.needle_2.is_slider)}],
                         TRUE)
            ELSE Outcome(m, FALSE)
      [] instruction.kind = "drop" ->
            IF instruction.needle \in m.loops
            THEN Outcome([m EXCEPT !.loops = @ \ {instruction.needle}], TRUE)
            ELSE Outcome(m, FALSE)
      [] instruction.kind = "rack" ->
            Outcome([m EXCEPT !.rack = rack_of(instruction.arg),
                              !.all_needle_rack = all_needle_rack_of(instruction.arg)],
                    will_update_machine_state(m, instruction))
      [] instruction.kind = "in" ->
            Outcome([m EXCEPT !.active = @ \cup {instruction.arg}],
                    will_update_machine_state(m, instruction))
      [] instruction.kind = "inhook" ->
            IF m.hooked # 0 THEN Raises(m)
            ELSE Outcome([m EXCEPT !.active = @ \cup {instruction.arg}, !.hooked = instruction.arg],
                         will_update_machine_state(m, instruction))
      [] instruction.kind = "releasehook" ->
            IF m.hooked = 0 THEN Outcome(m, FALSE)
            ELSE Outcome([m EXCEPT !.hooked = 0], TRUE)
      [] instruction.kind = "out" ->
            IF instruction.arg \notin m.active THEN Raises(m)
            ELSE Outcome([m EXCEPT !.active = @ \ {instruction.arg}], TRUE)
      [] instruction.kind = "outhook" ->
            IF instruction.arg \notin m.active \/ m.hooked # 0 THEN Raises(m)
            ELSE Outcome([m EXCEPT !.active = @ \ {instruction.arg}], TRUE)
      [] OTHER -> Outcome(m, FALSE)

----------------------------------------------------------------------------
(* The executer *)

\* A line of the executed program. wrap tells which object it is: "self" is the source
\* body line itself (shared with the source program, its numbers live in line_number),
\* "noop" a Knitout_No_Op around it, "header" a copied header line, "rack" a synthetic rack.
Entry(wrap, instruction, original_line_number) ==
    [wrap |-> wrap, instruction |-> instruction,
     original_line_number |-> original_line_number, line_number |-> NoNumber]

\* the original line number of source body line k
SourceOriginalLineNumber(header_len, k) == header_len + k - 1

\* append_line numbering a line only when it has no line number yet
append_line_numbering_once(st, entry) ==
    IF entry.wrap = "self"
    THEN [st EXCEPT !.executed_instructions = Append(@, entry),
                    !.line_number[entry.instruction.line] =
                        IF @ = NoNumber THEN Len(st.executed_instructions) ELSE @]
    ELSE [st EXCEPT !.executed_instructions =
                        Append(@, [entry EXCEPT !.line_number =
                            IF @ = NoNumber THEN Len(st.executed_instructions) ELSE @])]

\* Knitout_Program.append_line on the executed program: set_line(len(self)), then append
append_line(st, entry) ==
    IF entry.wrap = "self"
    THEN [st EXCEPT !.executed_instructions = Append(@, entry),
                    !.line_number[entry.instruction.line] = Len(st.executed_instructions)]
    ELSE [st EXCEPT !.executed_instructions =
                        Append(@, [entry EXCEPT !.line_number = Len(st.executed_instructions)])]

\* Knitout_No_Op(instruction): takes the instruction's current line number as its first line number
Knitout_No_Op(st, instruction) ==
    [Entry("noop", instruction, st.line_number[instruction.line])
        EXCEPT !.line_number = st.line_number[instruction.line]]

has_line_number(instruction) == instruction.line # 0

\* Knitting_Machine_Snapshot(machine); executed_len is the time it was taken at, measured
\* by the length of the executed program
Knitting_Machine_Snapshot(st) ==
    [machine |-> st.machine, executed_len |-> Len(st.executed_instructions)]

\* _take_snapshot
take_snapshot(st, instruction) ==
    IF /\ has_line_number(instruction)
       /\ SourceOriginalLineNumber(st.src_header, instruction.line) \in st.snapshot_targets
    THEN [st EXCEPT !.snapshots =
             DictSet(@, SourceOriginalLineNumber(st.src_header, instruction.line),
                     Knitting_Machine_Snapshot(st))]
    ELSE st

\* one entry of debug_calls: what was called, on which line, and the length of the executed
\* program at that time
DebugCall(what, st, instruction) ==
    [what |-> what, instruction |-> instruction, executed_len |-> Len(st.executed_instructions)]

\* an execution method entered while a debugger is attached
Enter(st, instruction) ==
    IF st.debugger
    THEN [st EXCEPT !.debug_calls = Append(@, DebugCall("execution_method", st, instruction))]
    ELSE st

\* debug_knitout_instruction: the decorator of the two execution methods
wrap_with_knitout_debug(execution_method(_, _), st, instruction) ==
    IF ~st.debugger THEN execution_method(st, instruction)
    ELSE LET st1 == [st EXCEPT !.debug_calls =
                        Append(@, DebugCall("debug_instruction", st, instruction))]
             st2 == execution_method(st1, instruction)
         IN IF st2.error
            THEN [st2 EXCEPT !.debug_calls =
                     Append(@, DebugCall("debug_exception", st2, instruction))]
            ELSE st2

\* the decorator calling debug_instruction only after the execution method has returned
wrap_with_knitout_debug_after(execution_method(_, _), st, instruction) ==
    IF ~st.debugger THEN execution_method(st, instruction)
    ELSE LET st2 == execution_method(st, instruction)
             st3 == [st2 EXCEPT !.debug_calls =
                        Append(@, DebugCall("debug_instruction", st2, instruction))]
         IN IF st3.error
            THEN [st3 EXCEPT !.debug_calls =
                     Append(@, DebugCall("debug_exception", st3, instruction))]
            ELSE st3

\* the body of _add_non_executable_instruction_to_execution
add_non_executable_instruction_to_execution_method(st0, instruction) ==
    LET st == Enter(st0, instruction)
    IN append_line(take_snapshot(st, instruction), Entry("self", instruction, NoNumber))

\* _add_non_executable_instruction_to_execution
add_non_executable_instruction_to_execution(st, instruction) ==
    wrap_with_knitout_debug(add_non_executable_instruction_to_execution_method, st, instruction)

\* the body of _execute_and_add_instruction
execute_and_add_instruction_method(st0, instruction) ==
    LET st == Enter(st0, instruction) IN
    IF instruction.kind \in {"comment", "pause"}
    THEN take_snapshot(append_line(st, Entry("self", instruction, NoNumber)), instruction)
    ELSE LET r == execute(st.machine, instruction)
             st1 == [st EXCEPT !.machine = r.machine]
         IN IF r.error THEN [st1 EXCEPT !.error = TRUE, !.raised = instruction]
            ELSE IF r.updated
            THEN IF has_line_number(instruction)
                 THEN take_snapshot(append_line(st1, Entry("self", instruction, NoNumber)),
                                    instruction)
                 ELSE append_line(st1, Entry("rack", instruction, Len(st1.executed_instructions)))
            ELSE IF has_line_number(instruction)
            THEN take_snapshot(append_line(st1, Knitout_No_Op(st1, instruction)), instruction)
            ELSE st1

\* _execute_and_add_instruction under the decorator that calls the hook too late
execute_and_add_instruction_debugged_after(st, instruction) ==
    wrap_with_knitout_debug_after(execute_and_add_instruction_method, st, instruction)

\* _execute_and_add_instruction
execute_and_add_instruction(st, instruction) ==
    wrap_with_knitout_debug(execute_and_add_instruction_method, st, instruction)

\* the loop of _execute_current_carriage_pass over the pass's instructions from index k;
\* an error raised by an instruction ends it
RECURSIVE ExecutePassFrom(_, _, _)
ExecutePassFrom(st, instructions, k) ==
    IF st.error \/ k > Len(instructions) THEN st
    ELSE ExecutePassFrom(execute_and_add_instruction(st, instructions[k]), instructions, k + 1)

NoLine == Line("none", NoNeedle, NoDirection, 0, NoNeedle, 0)

\* _execute_current_carriage_pass recording the pass although one of its instructions raised
execute_current_carriage_pass_recording_failed_pass(st, next_cp_instruction) ==
    IF st.current_carriage_pass = NoPass THEN st
    ELSE LET p == st.current_carriage_pass
             st1 == execute_and_add_instruction(
                        st, Rack_Instruction(rack_value_from_int_specification(p.rack, p.all_needle_rack)))
             p1 == IF xfer_pass(p) THEN [p EXCEPT !.direction = Rightward] ELSE p
             st2 == ExecutePassFrom([st1 EXCEPT !.current_carriage_pass = p1], p1.instructions, 1)
         IN [st2 EXCEPT !.carriage_passes = Append(@, p1)]

\* _execute_current_carriage_pass(next_cp_instruction)
execute_current_carriage_pass(st, next_cp_instruction) ==
    IF st.current_carriage_pass = NoPass THEN st
    ELSE LET p == st.current_carriage_pass
             st1 == execute_and_add_instruction(
                        st, Rack_Instruction(rack_value_from_int_specification(p.rack, p.all_needle_rack)))
             p1 == IF xfer_pass(p) THEN [p EXCEPT !.direction = Rightward] ELSE p
             st2 == ExecutePassFrom([st1 EXCEPT !.current_carriage_pass = p1], p1.instructions, 1)
         IN IF st2.error THEN st2
            ELSE [st2 EXCEPT !.carriage_passes = Append(@, p1),
                             !.left_most_position =
                                 IF @ # NoNumber THEN Min(@, leftmost_slot(p1))
                                 ELSE leftmost_slot(p1),
                             !.right_most_position =
                                 IF @ # NoNumber THEN Max(@, rightmost_slot(p1))
                                 ELSE rightmost_slot(p1),
                             !.current_carriage_pass =
                                 IF next_cp_instruction # NoLine
                                 THEN carriage_pass_typed_to_first_instruction(
                                          next_cp_instruction, st2.machine.rack, st2.machine.all_needle_rack)
                                 ELSE NoPass]

\* _process_next_instruction executing a carrier operation or rack while the pass stays open
process_next_instruction_keeping_pass_open(st, instruction) ==
    IF instruction.kind \in {"pause", "comment"}
    THEN add_non_executable_instruction_to_execution(st, instruction)
    ELSE IF IsNeedle_Instruction(instruction)
    THEN IF st.current_carriage_pass = NoPass
         THEN [st EXCEPT !.current_carriage_pass =
                  carriage_pass_typed_to_first_instruction(
                      instruction, st.machine.rack, st.machine.all_needle_rack)]
         ELSE IF can_add_instruction(st.current_carriage_pass, instruction,
                                     st.machine.rack, st.machine.all_needle_rack)
         THEN [st EXCEPT !.current_carriage_pass =
                  add_instruction(@, instruction, st.machine.rack, st.machine.all_needle_rack)]
         ELSE execute_current_carriage_pass(st, instruction)
    ELSE IF will_update_machine_state(st.machine, instruction)
    THEN execute_and_add_instruction(st, instruction)
    ELSE st

\* _process_next_instruction
process_next_instruction(st, instruction) ==
    IF instruction.kind \in {"pause", "comment"}
    THEN add_non_executable_instruction_to_execution(st, instruction)
    ELSE IF IsNeedle_Instruction(instruction)
    THEN IF st.current_carriage_pass = NoPass
         THEN [st EXCEPT !.current_carriage_pass =
                  carriage_pass_typed_to_first_instruction(
                      instruction, st.machine.rack, st.machine.all_needle_rack)]
         ELSE IF can_add_instruction(st.current_carriage_pass, instruction,
                                     st.machine.rack, st.machine.all_needle_rack)
         THEN [st EXCEPT !.current_carriage_pass =
                  add_instruction(@, instruction, st.machine.rack, st.machine.all_needle_rack)]
         ELSE execute_current_carriage_pass(st, instruction)
    ELSE IF will_update_machine_state(st.machine, instruction)
    THEN LET st1 == execute_current_carriage_pass(st, NoLine)
         IN IF st1.error THEN st1 ELSE execute_and_add_instruction(st1, instruction)
    ELSE st

\* _end_program leaving the open carriage pass unexecuted
end_program_leaving_pass_open(st) == st

\* _end_program
end_program(st) ==
    IF st.current_carriage_pass # NoPass THEN execute_current_carriage_pass(st, NoLine) ELSE st

\* the lines a source body is made of
ExecRackValues == {0, 1, 4}
FrontNeedles == {Needle(TRUE, p, FALSE) : p \in Positions}
SourceLines ==
    {Yarn_to_Needle("knit", n, d, 1) : n \in BedNeedles, d \in Directions}
    \cup {Xfer_Instruction(n, Needle(FALSE, n.position, FALSE)) : n \in FrontNeedles}
    \cup {Xfer_Instruction(Needle(FALSE, MaxPos, FALSE), Needle(TRUE, 1, FALSE))}
    \cup {Drop_Instruction(n) : n \in FrontNeedles \cup {Needle(FALSE, MaxPos, FALSE)}}
    \cup {Carrier_Instruction(k, 1) : k \in {"in", "out"}}
    \cup {Rack_Instruction(v) : v \in ExecRackValues}
    \cup {Pause_Instruction, Knitout_Comment_Line}

HeaderLine == Line("header", NoNeedle, NoDirection, 0, NoNeedle, 0)

\* Knitout_Program.new_header_program: copies of the source's header lines, or the default
\* version line when the source has none; Knitout_Program.__init__ numbers them
new_header_program(header_len) ==
    [j \in 1..(IF header_len = 0 THEN 1 ELSE header_len) |->
        [Entry("header", HeaderLine, j - 1) EXCEPT !.line_number = j - 1]]

State ==
    [machine |-> machine, executed_instructions |-> executed_instructions,
     line_number |-> line_number, carriage_passes |-> carriage_passes,
     current_carriage_pass |-> current_carriage_pass, error |-> FALSE,
     src_header |-> src_header, snapshot_targets |-> snapshot_targets,
     snapshots |-> snapshots, raised |-> NoLine,
     debugger |-> debugger, debug_calls |-> debug_calls,
     left_most_position |-> left_most_position,
     right_most_position |-> right_most_position]

Store(st) ==
    /\ machine' = st.machine
    /\ executed_instructions' = st.executed_instructions
    /\ line_number' = st.line_number
    /\ carriage_passes' = st.carriage_passes
    /\ current_carriage_pass' = st.current_carriage_pass
    /\ snapshots' = st.snapshots
    /\ raised' = st.raised
    /\ debug_calls' = st.debug_calls
    /\ left_most_position' = st.left_most_position
    /\ right_most_position' = st.right_most_position
    /\ UNCHANGED <<snapshot_targets, debugger, first_run>>

\* Knitout_Executer.__init__ up to the call of test_and_organize_instructions
InitExec ==
    /\ src_header \in {0, 2}
    /\ machine \in {[rack |-> 0, all_needle_rack |-> FALSE, active |-> a, hooked |-> 0, loops |-> {}] :
                       a \in {{}, {1}}}
    /\ body = <<>>
    /\ line_number = <<>>
    /\ executed_instructions = new_header_program(src_header)
    /\ carriage_passes = <<>>
    /\ current_carriage_pass = NoPass
    /\ status = "running"
    /\ snapshot_targets = {}
    /\ snapshots = <<>>
    /\ raised = NoLine
    /\ debugger = FALSE
    /\ debug_calls = <<>>
    /\ left_most_position = NoNumber
    /\ right_most_position = NoNumber
    /\ first_run = 0

\* the current line number of source body line k when the run starts: Knitout_Program.__init__
\* sets each line's number to its index in the program
InitialLineNumber(k) == SourceOriginalLineNumber(src_header, k)

\* one iteration of the loop of test_and_organize_instructions over the program body
ProcessNextInstruction(l) ==
    /\ status = "running"
    /\ Len(body) < MaxBody
    /\ LET instruction == [l EXCEPT !.line = Len(body) + 1]
           st0 == [State EXCEPT !.line_number = Append(@, InitialLineNumber(Len(body) + 1))]
           st == process_next_instruction(st0, instruction)
       IN /\ body' = Append(body, instruction)
          /\ Store(st)
          /\ status' = IF st.error THEN "error" ELSE "running"
    /\ UNCHANGED <<src_header, varsCP, varsProg, varsUnit>>

\* the end of the body: _end_program
EndProgram ==
    /\ status = "running"
    /\ LET st == end_program(State)
       IN /\ Store(st)
          /\ status' = IF st.error THEN "error" ELSE "done"
    /\ UNCHANGED <<body, src_header, varsCP, varsProg, varsUnit>>

NextExec ==
    \/ \E l \in SourceLines : ProcessNextInstruction(l)
    \/ EndProgram

Init == InitExec /\ IdleCP /\ IdleProg /\ IdleUnit

Spec == Init /\ [][NextExec]_vars

\* Knitout_Executer.__init__ with or without a debugger, on a source without header lines
InitDebug ==
    /\ src_header = 0
    /\ machine \in {[rack |-> 0, all_needle_rack |-> FALSE, active |-> a, hooked |-> 0, loops |-> {}] :
                       a \in {{}, {1}}}
    /\ body = <<>>
    /\ line_number = <<>>
    /\ executed_instructions = new_header_program(src_header)
    /\ carriage_passes = <<>>
    /\ current_carriage_pass = NoPass
    /\ status = "running"
    /\ snapshot_targets = {}
    /\ snapshots = <<>>
    /\ raised = NoLine
    /\ debugger \in BOOLEAN
    /\ debug_calls = <<>>
    /\ left_most_position = NoNumber
    /\ right_most_position = NoNumber
    /\ first_run = 0
    /\ IdleCP /\ IdleProg /\ IdleUnit

SpecDebug == InitDebug /\ [][NextExec]_vars

\* the snapshot_targets argument of Knitout_Executer.__init__
SnapshotTargetSets == {{1, 3}, {0, 2, 4}}

\* Knitout_Executer.__init__ with snapshot targets
InitSnap ==
    /\ src_header \in {0, 2}
    /\ machine \in {[rack |-> 0, all_needle_rack |-> FALSE, active |-> a, hooked |-> 0, loops |-> {}] :
                       a \in {{}, {1}}}
    /\ body = <<>>
    /\ line_number = <<>>
    /\ executed_instructions = new_header_program(src_header)
    /\ carriage_passes = <<>>
    /\ current_carriage_pass = NoPass
    /\ status = "running"
    /\ snapshot_targets \in SnapshotTargetSets
    /\ snapshots = <<>>
    /\ raised = NoLine
    /\ debugger = FALSE
    /\ debug_calls = <<>>
    /\ left_most_position = NoNumber
    /\ right_most_position = NoNumber
    /\ first_run = 0
    /\ IdleCP /\ IdleProg /\ IdleUnit

SpecSnap == InitSnap /\ [][NextExec]_vars

----------------------------------------------------------------------------
(* Properties of the carriage pass (SpecCP) *)

\* the compatibility classes {Xfer}, {Split}, {Drop}, {Miss}, {Knit, Tuck, Kick}
CompatibilityClass(i) == IF i.kind \in {"knit", "tuck", "kick"} THEN "knit-pass" ELSE i.kind

\* C5: every instruction of a carriage pass is in the compatibility class of the pass's
\* first instruction (so a pass that starts with a Miss holds no Kick).
C5_HomogeneousClass ==
    cp # NoPass =>
        \A k \in 1..Len(cp.instructions) :
            CompatibilityClass(cp.instructions[k]) = CompatibilityClass(first_instruction(cp))

\* C6: in a directed pass every instruction has the direction and the carrier set of the
\* pass's first instruction.
C6_SameDirectionAndCarrierSet ==
    (cp # NoPass /\ IsYarn_to_Needle_Instruction(first_instruction(cp))) =>
        \A k \in 1..Len(cp.instructions) :
            /\ cp.instructions[k].direction = first_instruction(cp).direction
            /\ cp.instructions[k].carrier_set = first_instruction(cp).carrier_set

\* C7: no needle is used by two instructions of a pass, and the needle-to-instruction map
\* has exactly one entry per instruction of the ordered list: the entry of its needle.
C7_NeedlesUnique ==
    cp # NoPass =>
        /\ \A j, k \in 1..Len(cp.instructions) :
              cp.instructions[j].needle = cp.instructions[k].needle => j = k
        /\ DOMAIN cp.needles_to_instruction = {cp.instructions[k].needle : k \in 1..Len(cp.instructions)}
        /\ Cardinality(DOMAIN cp.needles_to_instruction) = Len(cp.instructions)
        /\ \A k \in 1..Len(cp.instructions) :
              cp.needles_to_instruction[cp.instructions[k].needle] = cp.instructions[k]

\* C7 witness: an all-needle pass that grew by an operation and holds the front and the
\* back needle of one slot
C7_Witness ==
    /\ cp # NoPass
    /\ cp.all_needle_rack
    /\ cp_result \in {"True", "None"}
    /\ \E j, k \in 1..Len(cp.instructions) :
          /\ cp.instructions[j].needle.is_front
          /\ ~cp.instructions[k].needle.is_front
          /\ slot_by_racking(cp.instructions[j].needle, cp.rack)
               = slot_by_racking(cp.instructions[k].needle, cp.rack)

----------------------------------------------------------------------------
(* Properties of the executer (Spec) *)

CarrierOrRack(i) == i.kind \in {"in", "inhook", "out", "outhook", "releasehook", "rack"}
Executable(i) == IsNeedle_Instruction(i) \/ CarrierOrRack(i)

\* the current line number of a line of the executed program
LineNumberOf(e) == IF e.wrap = "self" THEN line_number[e.instruction.line] ELSE e.line_number

\* source body line k is in the executed program, as itself or wrapped in a No-Op
InExecuted(k) ==
    \E j \in 1..Len(executed_instructions) :
        /\ executed_instructions[j].wrap \in {"self", "noop"}
        /\ executed_instructions[j].instruction.line = k

ExecutedIndexOf(k) ==
    CHOOSE j \in 1..Len(executed_instructions) :
        /\ executed_instructions[j].wrap \in {"self", "noop"}
        /\ executed_instructions[j].instruction.line = k

InPass(p, k) == \E j \in 1..Len(p.instructions) : p.instructions[j].line = k

PassIndexOf(k) == CHOOSE n \in 1..Len(carriage_passes) : InPass(carriage_passes[n], k)

\* C1: while the body is iterated an open carriage pass is closed exactly when the next
\* needle instruction fails can_add, or the next executable is a carrier operation or a
\* rack (whatever its effect), or the end of the body is reached.
C1_ClosureExactlyWhenTriggered ==
    [][(status = "running" /\ current_carriage_pass # NoPass /\ status' # "error") =>
          IF body' # body
          THEN LET i == body'[Len(body')]
               IN (Len(carriage_passes') = Len(carriage_passes) + 1)
                  <=> \/ /\ IsNeedle_Instruction(i)
                         /\ ~can_add_instruction(current_carriage_pass, i,
                                                 machine.rack, machine.all_needle_rack)
                      \/ CarrierOrRack(i)
          ELSE Len(carriage_passes') = Len(carriage_passes) + 1]_vars

\* C2: for a body knit A / pause / knit B where B satisfies can_add for A's pass, after the
\* run A and B are in distinct carriage passes and the pause lies between them in the
\* executed program.
C2_PauseNotFoldable ==
    (/\ status = "done"
     /\ Len(body) = 3
     /\ body[1].kind = "knit" /\ body[2].kind = "pause" /\ body[3].kind = "knit"
     /\ can_add_instruction(carriage_pass_typed_to_first_instruction(body[1], 0, FALSE),
                            body[3], 0, FALSE))
    => /\ PassIndexOf(1) # PassIndexOf(3)
       /\ ExecutedIndexOf(1) < ExecutedIndexOf(2)
       /\ ExecutedIndexOf(2) < ExecutedIndexOf(3)

\* the direction of a recorded pass: the one set when an Xfer pass is closed, else the
\* direction of its first instruction, none for a Drop pass
PassDirection(p) ==
    IF p.direction # NoDirection THEN p.direction ELSE first_instruction(p).direction

\* C3: in every recorded pass with a direction, consecutive instructions are in all-needle
\* mode on opposite beds at one slot, or their slots move strictly in the direction.
C3_SlotsFollowDirection ==
    \A n \in 1..Len(carriage_passes) :
        LET p == carriage_passes[n]
        IN PassDirection(p) # NoDirection =>
            \A k \in 1..(Len(p.instructions) - 1) :
                LET a == p.instructions[k].needle
                    b == p.instructions[k + 1].needle
                IN \/ /\ p.all_needle_rack
                      /\ a.is_front # b.is_front
                      /\ slot_by_racking(a, p.rack) = slot_by_racking(b, p.rack)
                   \/ /\ PassDirection(p) = Rightward
                      /\ slot_by_racking(a, p.rack) < slot_by_racking(b, p.rack)
                   \/ /\ PassDirection(p) = Leftward
                      /\ slot_by_racking(a, p.rack) > slot_by_racking(b, p.rack)

\* C4: the racking and all-needle flag of the pass being formed equal the machine's, up to
\* and including the moment the pass is executed, so that the synthetic rack of a pass
\* close changes nothing and never enters the executed program.
C4_PassRackIsMachineRack ==
    /\ current_carriage_pass # NoPass =>
          /\ current_carriage_pass.rack = machine.rack
          /\ current_carriage_pass.all_needle_rack = machine.all_needle_rack
    /\ \A j \in 1..Len(executed_instructions) : executed_instructions[j].wrap # "rack"

\* C4 witness: a pass created after the machine was racked has been executed and recorded
C4_Witness ==
    /\ status = "done"
    /\ \E n \in 1..Len(carriage_passes) :
          carriage_passes[n].rack # 0 \/ carriage_passes[n].all_needle_rack

\* C8: after the run every executable instruction of the source body is in the executed
\* program, as itself or wrapped in a No-Op.
C8_NoInstructionOmitted ==
    status = "done" =>
        \A k \in 1..Len(body) : Executable(body[k]) => InExecuted(k)

\* C9: every line of the executed program has its position as current line number.
C9_LineNumberIsPosition ==
    \A j \in 1..Len(executed_instructions) : LineNumberOf(executed_instructions[j]) = j - 1

\* C9 witness: a finished run whose executed program holds a header line, an instruction,
\* a comment or pause, and a No-Op
C9_Witness ==
    /\ status = "done"
    /\ \E j \in 1..Len(executed_instructions) : executed_instructions[j].wrap = "noop"
    /\ \E j \in 1..Len(executed_instructions) :
          /\ executed_instructions[j].wrap = "self"
          /\ IsNeedle_Instruction(executed_instructions[j].instruction)
    /\ \E j \in 1..Len(executed_instructions) :
          executed_instructions[j].instruction.kind \in {"comment", "pause"}

----------------------------------------------------------------------------
(* Knitout_Program: the list of line objects and its mutations *)

\* a line object as the program container sees it; NoNumber stands for None
New_Knitout_Line(kind, position) ==
    [kind |-> kind, position |-> position,
     original_line_number |-> NoNumber, line_number |-> NoNumber]

IsKnitout_Instruction(l) == IsNeedle_Instruction(l) \/ l.kind = "pause"
IsKnitout_Comment_Line(l) == l.kind \in {"comment", "noop", "breakpoint"}
IsKnitout_Header_Line(l) == l.kind \in {"header", "version"}

\* set_line that overwrites the original line number on every call
set_line_overwriting_original(l, n) ==
    [l EXCEPT !.original_line_number = n, !.line_number = n]

\* Knitout_Line.set_line
set_line(l, n) ==
    [l EXCEPT !.original_line_number = IF @ = NoNumber THEN n ELSE @,
              !.line_number = n]

\* line.set_line(n) on the object id of the heap
SetLine(heap, id, n) == [heap EXCEPT ![id] = set_line(@, n)]

\* list.insert(index, x), 0-based
InsertAt(seq, index, x) ==
    SubSeq(seq, 1, index) \o <<x>> \o SubSeq(seq, index + 1, Len(seq))

\* del list[start : end + 1], 0-based
DeleteRange(seq, start, end) ==
    SubSeq(seq, 1, start) \o SubSeq(seq, end + 2, Len(seq))

\* _update_line_numbers: for i, line in enumerate(self): line.set_line(i)
RECURSIVE UpdateFrom(_, _, _)
UpdateFrom(heap, prog, k) ==
    IF k > Len(prog) THEN heap
    ELSE UpdateFrom(SetLine(heap, prog[k], k - 1), prog, k + 1)

update_line_numbers(ps) ==
    [lines |-> UpdateFrom(ps.lines, ps.program, 1), program |-> ps.program]

\* Knitout_Program.append_line
Knitout_Program_append_line(ps, id) ==
    [lines |-> SetLine(ps.lines, id, Len(ps.program)), program |-> Append(ps.program, id)]

\* Knitout_Program.append_lines
RECURSIVE AppendFrom(_, _, _)
AppendFrom(ps, ids, k) ==
    IF k > Len(ids) THEN ps
    ELSE AppendFrom(Knitout_Program_append_line(ps, ids[k]), ids, k + 1)

append_lines(ps, ids) == AppendFrom(ps, ids, 1)

\* Knitout_Program.insert_line
insert_line(ps, index, id) ==
    update_line_numbers([lines |-> SetLine(ps.lines, id, index),
                         program |-> InsertAt(ps.program, index, id)])

\* Knitout_Program.insert_lines
RECURSIVE InsertFrom(_, _, _, _)
InsertFrom(ps, start_index, ids, k) ==
    IF k > Len(ids) THEN ps
    ELSE InsertFrom([lines |-> SetLine(ps.lines, ids[k], start_index + k - 1),
                     program |-> InsertAt(ps.program, start_index + k - 1, ids[k])],
                    start_index, ids, k + 1)

insert_lines(ps, start_index, ids) == update_line_numbers(InsertFrom(ps, start_index, ids, 1))

\* Knitout_Program.remove_line
remove_line(ps, line_index_to_remove) ==
    update_line_numbers([lines |-> ps.lines,
                         program |-> DeleteRange(ps.program, line_index_to_remove,
                                                 line_index_to_remove)])

\* Knitout_Program.remove_lines
remove_lines(ps, start_index, end_index) ==
    update_line_numbers([lines |-> ps.lines,
                         program |-> DeleteRange(ps.program, start_index, end_index)])

\* swap_line writing the new line one index further
swap_line_at_next_index(ps, line_index, id) ==
    [lines |-> SetLine(ps.lines, id, ps.lines[ps.program[line_index + 1]].line_number),
     program |-> IF line_index + 2 <= Len(ps.program)
                 THEN [ps.program EXCEPT ![line_index + 2] = id]
                 ELSE ps.program]

\* Knitout_Program.swap_line
swap_line(ps, line_index, id) ==
    [lines |-> SetLine(ps.lines, id, ps.lines[ps.program[line_index + 1]].line_number),
     program |-> [ps.program EXCEPT ![line_index + 1] = id]]

\* Knitout_Program.swap_lines: every new line is written to index start_index + 1; the
\* loop ends with an IndexError when that index is outside the list
RECURSIVE SwapFrom(_, _, _, _, _)
SwapFrom(ps, start_index, start_line_number, ids, k) ==
    IF k > Len(ids) THEN ps
    ELSE LET heap == SetLine(ps.lines, ids[k], start_line_number + k - 1)
         IN IF start_index + 1 >= Len(ps.program)
            THEN [lines |-> heap, program |-> ps.program]
            ELSE SwapFrom([lines |-> heap,
                           program |-> [ps.program EXCEPT ![start_index + 2] = ids[k]]],
                          start_index, start_line_number, ids, k + 1)

swap_lines(ps, start_index, ids) ==
    SwapFrom(ps, start_index, ps.lines[ps.program[start_index + 1]].line_number, ids, 1)

\* Needle_Instruction.shift_needle_position: a fresh copy moved by delta
shift_needle_position(l, delta) == New_Knitout_Line(l.kind, l.position + delta)

\* Knitout_Program.shift_needle_positions
RECURSIVE ShiftFrom(_, _, _)
ShiftFrom(ps, delta, k) ==
    IF k > Len(ps.program) THEN ps
    ELSE IF IsNeedle_Instruction(ps.lines[ps.program[k]])
    THEN LET heap == Append(ps.lines, shift_needle_position(ps.lines[ps.program[k]], delta))
         IN ShiftFrom(swap_line([lines |-> heap, program |-> ps.program], k - 1, Len(heap)),
                      delta, k + 1)
    ELSE ShiftFrom(ps, delta, k + 1)

shift_needle_positions(ps, delta) == IF delta = 0 THEN ps ELSE ShiftFrom(ps, delta, 1)

\* [i for i in seq if test(line i)]
RECURSIVE Filter(_, _, _)
Filter(heap, seq, kinds) ==
    IF seq = <<>> THEN <<>>
    ELSE IF heap[seq[1]].kind \in kinds
    THEN <<seq[1]>> \o Filter(heap, Tail(seq), kinds)
    ELSE Filter(heap, Tail(seq), kinds)

InstructionKinds == {"knit", "tuck", "miss", "kick", "split", "xfer", "drop", "pause",
                     "in", "inhook", "out", "outhook", "releasehook", "rack"}
CommentKinds == {"comment", "noop", "breakpoint"}
HeaderKinds == {"header", "version"}
AllKinds == InstructionKinds \cup CommentKinds \cup HeaderKinds

\* Knitout_Program.instructions
instructions(ps) == Filter(ps.lines, ps.program, InstructionKinds)

\* Knitout_Program.organize_program; version_line makes a default version line when the
\* program holds none
organize_program(ps, remove_comments, remove_no_op, remove_pause, remove_breakpoint) ==
    LET versions == Filter(ps.lines, ps.program, {"version"})
        heap == IF versions = <<>>
                THEN Append(ps.lines, New_Knitout_Line("version", 0))
                ELSE ps.lines
        version_line == IF versions = <<>> THEN Len(heap) ELSE versions[1]
        header == Filter(heap, ps.program, HeaderKinds)
        program_body == IF remove_comments
                THEN Filter(heap, ps.program, InstructionKinds)
                ELSE Filter(heap, ps.program, InstructionKinds \cup CommentKinds)
        organized == <<version_line>> \o header \o program_body
        no_no_op == IF ~remove_comments /\ remove_no_op
                    THEN Filter(heap, organized, AllKinds \ {"noop"})
                    ELSE organized
        no_breakpoint == IF remove_breakpoint
                         THEN Filter(heap, no_no_op, AllKinds \ {"breakpoint"})
                         ELSE no_no_op
        no_pause == IF remove_pause
                    THEN Filter(heap, no_breakpoint, AllKinds \ {"pause"})
                    ELSE no_breakpoint
    IN update_line_numbers([lines |-> heap, program |-> no_pause])

----------------------------------------------------------------------------
(* SpecProg: line objects are made and one program is mutated; a second program is
   there to take lines of the first *)

\* the line objects the caller has made before it builds the program, by creation order
PoolKinds == <<"knit", "pause", "comment", "header", "knit", "header">>
Deltas == {-1, 1}

ProgState == [lines |-> lines, program |-> program]
InProgram(id) == \E k \in 1..Len(program) : program[k] = id
\* the line objects a caller can hand to the program: the ones it does not hold
Free == {id \in 1..Len(lines) : ~InProgram(id)}
Indices == 0..(Len(program) - 1)

StoreProg(ps) ==
    /\ Len(ps.lines) <= MaxObjects
    /\ Len(ps.program) <= MaxLines
    /\ ops < MaxOps
    /\ lines' = ps.lines
    /\ program' = ps.program
    /\ ops' = ops + 1
    /\ UNCHANGED <<other_program, varsCP, varsExec, varsUnit>>

\* Knitout_Line.__init__ for each line of the pool, then Knitout_Program([]) twice
InitProg ==
    /\ lines = [k \in 1..MaxLines |-> New_Knitout_Line(PoolKinds[k], IF PoolKinds[k] = "knit" THEN 1 ELSE 0)]
    /\ program = <<>>
    /\ other_program = <<>>
    /\ ops = 0

AppendLine(id) == StoreProg(Knitout_Program_append_line(ProgState, id))

AppendLines(id1, id2) == id1 # id2 /\ StoreProg(append_lines(ProgState, <<id1, id2>>))

InsertLine(index, id) == StoreProg(insert_line(ProgState, index, id))

InsertLines(index, id1, id2) ==
    id1 # id2 /\ StoreProg(insert_lines(ProgState, index, <<id1, id2>>))

RemoveLine(index) == StoreProg(remove_line(ProgState, index))

RemoveLines(start_index, end_index) ==
    start_index <= end_index /\ StoreProg(remove_lines(ProgState, start_index, end_index))

SwapLine(index, id) == StoreProg(swap_line(ProgState, index, id))

SwapLines(index, id1, id2) ==
    id1 # id2 /\ StoreProg(swap_lines(ProgState, index, <<id1, id2>>))

ShiftNeedlePositions(delta) ==
    /\ \A k \in 1..Len(program) :
          IsNeedle_Instruction(lines[program[k]]) =>
              lines[program[k]].position + delta \in 0..MaxPos
    /\ \E k \in 1..Len(program) : IsNeedle_Instruction(lines[program[k]])
    /\ StoreProg(shift_needle_positions(ProgState, delta))

OrganizeProgram(remove_comments, remove_no_op, remove_pause, remove_breakpoint) ==
    StoreProg(organize_program(ProgState, remove_comments, remove_no_op, remove_pause,
                               remove_breakpoint))

\* other_program.append_line(line) for a line the other program does not hold
AppendToOtherProgram(id) ==
    /\ \A k \in 1..Len(other_program) : other_program[k] # id
    /\ Len(other_program) < MaxOtherLines
    /\ ops < MaxOps
    /\ ops' = ops + 1
    /\ LET ps == Knitout_Program_append_line([lines |-> lines, program |-> other_program], id)
       IN /\ lines' = ps.lines
          /\ other_program' = ps.program
    /\ UNCHANGED <<program, varsCP, varsExec, varsUnit>>

NextProg ==
    \/ \E id \in Free : AppendLine(id)
    \/ \E id1 \in Free, id2 \in Free : AppendLines(id1, id2)
    \/ \E index \in 0..Len(program), id \in Free : InsertLine(index, id)
    \/ \E index \in 0..Len(program), id1 \in Free, id2 \in Free : InsertLines(index, id1, id2)
    \/ \E index \in Indices : RemoveLine(index)
    \/ \E start_index \in Indices, end_index \in Indices : RemoveLines(start_index, end_index)
    \/ \E index \in Indices, id \in Free : SwapLine(index, id)
    \/ \E index \in Indices, id1 \in Free, id2 \in Free : SwapLines(index, id1, id2)
    \/ \E delta \in Deltas : ShiftNeedlePositions(delta)
    \/ \E rc \in BOOLEAN, rn \in BOOLEAN, rp \in BOOLEAN, rb \in BOOLEAN :
          OrganizeProgram(rc, rn, rp, rb)
    \/ \E id \in 1..Len(lines) : AppendToOtherProgram(id)

InitSpecProg == InitProg /\ IdleCP /\ IdleExec /\ IdleUnit

SpecProg == InitSpecProg /\ [][NextProg]_vars

----------------------------------------------------------------------------
(* Properties of the program container (SpecProg) *)

\* C10: once a line's original line number is set, no operation on a program changes it:
\* append, insert, insert_lines, remove, remove_lines, swap_line, organize_program,
\* shift_needle_positions, or appending the line to another program.
C10_OriginalLineNumberKept ==
    [][\A id \in 1..Len(lines) :
          lines[id].original_line_number # NoNumber =>
              /\ id <= Len(lines')
              /\ lines'[id].original_line_number = lines[id].original_line_number]_vars

\* C10 witness: a line that was numbered in one program now sits in the other program at
\* another index, its current line number moved away from its original line number
C10_Witness ==
    \E id \in 1..Len(lines) :
        /\ lines[id].original_line_number # NoNumber
        /\ lines[id].line_number # lines[id].original_line_number
        /\ \E k \in 1..Len(other_program) : other_program[k] = id

\* C11: after any sequence of mutations of the one program (no other program holding its
\* lines), every line of the program has its current line number equal to its list index.
C11_LineNumberIsIndex ==
    other_program = <<>> =>
        \A k \in 1..Len(program) : lines[program[k]].line_number = k - 1

----------------------------------------------------------------------------
(* Knitout_Loop: source instruction, transfer history and dropping instruction *)

\* Knitout_Loop.__init__; "None" stands for None, call and raised record the last call
Knitout_Loop ==
    [source_instruction |-> "None", transfer_history |-> <<>>,
     dropping_instruction |-> "None", call |-> "None", raised |-> "None"]

\* set_source without the guard on an already known source
set_source_overwriting(l, instruction) ==
    [l EXCEPT !.source_instruction = instruction, !.call = "set_source", !.raised = "None"]

\* Knitout_Loop.set_source
set_source(l, instruction) ==
    IF l.source_instruction # "None"
    THEN [l EXCEPT !.call = "set_source", !.raised = "ValueError"]
    ELSE [l EXCEPT !.source_instruction = instruction, !.call = "set_source",
                   !.raised = "None"]

\* Knitout_Loop.add_transfer_instruction
add_transfer_instruction(l, xfer) ==
    [l EXCEPT !.transfer_history = Append(@, xfer), !.call = "add_transfer_instruction",
              !.raised = "None"]

\* Knitout_Loop.drop_from_bed
drop_from_bed(l, drop) ==
    IF l.dropping_instruction # "None"
    THEN [l EXCEPT !.call = "drop_from_bed", !.raised = "ValueError"]
    ELSE [l EXCEPT !.dropping_instruction = drop, !.call = "drop_from_bed",
                   !.raised = "None"]

\* the instruction classes that call each method on the loops they make, move or drop
Loop_Making_Instructions == {"knit", "tuck", "split"}
Two_Needle_Instructions == {"xfer", "split"}
Dropping_Instructions == {"drop", "knit"}

StoreLoop(l) ==
    /\ Len(l.transfer_history) <= MaxTransfers
    /\ loop' = l
    /\ UNCHANGED <<varsCP, varsExec, varsProg, machine_header, round_trip, varsPure>>

InitLoop == loop = Knitout_Loop

SetSource(instruction) == StoreLoop(set_source(loop, instruction))

AddTransferInstruction(xfer) == StoreLoop(add_transfer_instruction(loop, xfer))

DropFromBed(drop) == StoreLoop(drop_from_bed(loop, drop))

NextLoop ==
    \/ \E instruction \in Loop_Making_Instructions : SetSource(instruction)
    \/ \E xfer \in Two_Needle_Instructions : AddTransferInstruction(xfer)
    \/ \E drop \in Dropping_Instructions : DropFromBed(drop)

InitSpecLoop == InitLoop /\ IdleCP /\ IdleExec /\ IdleProg /\ IdleHeader /\ IdleText /\ IdlePure

SpecLoop == InitSpecLoop /\ [][NextLoop]_vars

\* C12: a loop's source instruction and dropping instruction are write-once: no call
\* changes one that is set, and a set_source on a loop with a source, or a drop_from_bed
\* on a dropped loop, raises ValueError.
C12_SourceAndDropWriteOnce ==
    [][/\ loop.source_instruction # "None" =>
             /\ loop'.source_instruction = loop.source_instruction
             /\ loop'.call = "set_source" => loop'.raised = "ValueError"
       /\ loop.dropping_instruction # "None" =>
             /\ loop'.dropping_instruction = loop.dropping_instruction
             /\ loop'.call = "drop_from_bed" => loop'.raised = "ValueError"]_vars

\* C12 witness: a second set_source has just raised on a loop that was formed, transferred
\* and dropped
C12_Witness ==
    /\ loop.call = "set_source" /\ loop.raised = "ValueError"
    /\ loop.source_instruction # "None"
    /\ loop.dropping_instruction # "None"
    /\ loop.transfer_history # <<>>

----------------------------------------------------------------------------
(* Properties of the snapshots (SpecSnap) *)

\* executed entry j is source body line n (itself or its no-op)
IsEntryOfLine(j, n) ==
    /\ executed_instructions[j].wrap \in {"self", "noop"}
    /\ SourceOriginalLineNumber(src_header, executed_instructions[j].instruction.line) = n

\* C13: a snapshot for a targeted line is taken only after that line has been appended to
\* the executed program: at the time of the snapshot the executed program holds the line.
C13_SnapshotAfterAppend ==
    \A n \in DOMAIN snapshots :
        \E j \in 1..snapshots[n].executed_len : IsEntryOfLine(j, n)

\* C14: after a run that completes without error, every snapshot target that is the original
\* line number of a body line has a snapshot, every snapshot key is a target, and the
\* snapshot of the line executed last holds the final machine state.
C14_SnapshotForEveryTargetedBodyLine ==
    status = "done" =>
        /\ \A k \in 1..Len(body) :
              SourceOriginalLineNumber(src_header, k) \in snapshot_targets =>
                  SourceOriginalLineNumber(src_header, k) \in DOMAIN snapshots
        /\ DOMAIN snapshots \subseteq snapshot_targets
        /\ \A n \in DOMAIN snapshots :
              IsEntryOfLine(Len(executed_instructions), n) => snapshots[n].machine = machine

----------------------------------------------------------------------------
(* Knitting_Machine_Header: the header lines by header type *)

Knitout_Header_Line_Type == {"Machine", "Gauge", "Position", "Carriers", "Knitout_Version"}

\* the values a header line of any type takes in the model; 1 is the specification's value
HeaderValues == {1, 2}

\* Knitout_Header_Line(header_type, header_value)
Knitout_Header_Line(header_type, header_value) ==
    [header_type |-> header_type, header_value |-> header_value]

\* Knitting_Machine_Header.set_header_by_specification
set_header_by_specification == [t \in Knitout_Header_Line_Type |-> Knitout_Header_Line(t, 1)]

\* Knitting_Machine_Header._update_header: the header lines afterwards and the returned flag
update_header(header_lines, header_line) ==
    IF header_line.header_type \notin DOMAIN header_lines
    THEN [header_lines |-> DictSet(header_lines, header_line.header_type, header_line),
          updated |-> TRUE]
    ELSE IF header_line # header_lines[header_line.header_type]
    THEN [header_lines |-> DictSet(header_lines, header_line.header_type, header_line),
          updated |-> TRUE]
    ELSE [header_lines |-> header_lines, updated |-> FALSE]

\* any(self._update_header(l) for l in program.header): any stops the generator at the
\* first True
RECURSIVE ExtractFrom(_, _, _)
ExtractFrom(header_lines, program_header, k) ==
    IF k > Len(program_header) THEN [header_lines |-> header_lines, result |-> "False"]
    ELSE LET u == update_header(header_lines, program_header[k])
         IN IF u.updated THEN [header_lines |-> u.header_lines, result |-> "True"]
            ELSE ExtractFrom(u.header_lines, program_header, k + 1)

\* Knitting_Machine_Header.extract_header
extract_header(header_lines, program_header) == ExtractFrom(header_lines, program_header, 1)

RECURSIVE SeqsUpTo(_, _)
SeqsUpTo(S, n) ==
    IF n = 0 THEN {<<>>}
    ELSE LET shorter == SeqsUpTo(S, n - 1)
         IN shorter \cup {Append(q, x) : q \in shorter, x \in S}

\* Knitting_Machine_Header.__init__, and a program with up to MaxHeaderLines header lines
InitHeader ==
    \E program_header \in SeqsUpTo({Knitout_Header_Line(t, v) :
                                       t \in Knitout_Header_Line_Type, v \in HeaderValues},
                                   MaxHeaderLines) :
        machine_header = [header_lines |-> set_header_by_specification,
                          program_header |-> program_header, result |-> "None"]

ExtractHeader ==
    /\ machine_header.result = "None"
    /\ LET r == extract_header(machine_header.header_lines, machine_header.program_header)
       IN machine_header' = [machine_header EXCEPT !.header_lines = r.header_lines,
                                                   !.result = r.result]
    /\ UNCHANGED <<varsCP, varsExec, varsProg, loop, round_trip, varsPure>>

NextHeader == ExtractHeader

InitSpecHeader == InitHeader /\ IdleCP /\ IdleExec /\ IdleProg /\ IdleLoop /\ IdleText /\ IdlePure

SpecHeader == InitSpecHeader /\ [][NextHeader]_vars

\* C15: extract_header processes every header line of the program in program order:
\* afterwards the header's entry of each header type that occurs in the program equals the
\* last program line of that type, and the result is true iff some line differs in value
\* from the entry it replaces (the previous line of its type, or the entry of the
\* specification).
C15_ExtractHeaderTakesLastOfEachType ==
    machine_header.result # "None" =>
        LET ph == machine_header.program_header
            Earlier(k) == {j \in 1..(k - 1) : ph[j].header_type = ph[k].header_type}
            IsLast(k) == \A j \in (k + 1)..Len(ph) : ph[j].header_type # ph[k].header_type
            Replaced(k) ==
                IF Earlier(k) = {}
                THEN set_header_by_specification[ph[k].header_type]
                ELSE ph[CHOOSE j \in Earlier(k) : \A i \in Earlier(k) : i <= j]
        IN /\ \A k \in 1..Len(ph) :
                 IsLast(k) => machine_header.header_lines[ph[k].header_type] = ph[k]
           /\ (machine_header.result = "True") <=> (\E k \in 1..Len(ph) : ph[k] # Replaced(k))

----------------------------------------------------------------------------
(* Properties of organize_program and shift_needle_positions (SpecProg) *)

\* C16: organize_program with remove_comments and remove_no_op true and the other flags at
\* their defaults (true) keeps the instruction view: p.instructions afterwards is the list
\* before, same order and same objects, also for programs that hold Pause instructions.
C16_OrganizeKeepsInstructions ==
    [][OrganizeProgram(TRUE, TRUE, TRUE, TRUE) =>
          instructions([lines |-> lines', program |-> program']) = instructions(ProgState)]_vars

\* C17: after organize_program the program is in canonical order: exactly one version
\* line, at index 0, then the other header lines, then the retained body lines in their
\* previous relative order, and no line object occurs twice.
C17_OrganizedIsCanonical ==
    [][(\E rc \in BOOLEAN, rn \in BOOLEAN, rp \in BOOLEAN, rb \in BOOLEAN :
            OrganizeProgram(rc, rn, rp, rb)) =>
          LET kind(k) == lines'[program'[k]].kind
              Before(prog, a, b) ==
                  \E i \in 1..Len(prog), j \in 1..Len(prog) :
                      i < j /\ prog[i] = a /\ prog[j] = b
          IN /\ Len(program') >= 1
             /\ kind(1) = "version"
             /\ \A k \in 2..Len(program') : kind(k) # "version"
             /\ \A i \in 1..Len(program'), j \in 1..Len(program') :
                   i # j => program'[i] # program'[j]
             /\ \A i \in 1..Len(program'), j \in 1..Len(program') :
                   (kind(i) \in HeaderKinds /\ kind(j) \notin HeaderKinds) => i < j
             /\ \A i \in 1..Len(program'), j \in 1..Len(program') :
                   (i < j /\ kind(i) \notin HeaderKinds /\ kind(j) \notin HeaderKinds) =>
                       Before(program, program'[i], program'[j])]_vars

----------------------------------------------------------------------------
(* Serialization (__str__) and parsing of carrier operations, pause, comments, breakpoints *)

\* a line as its class and its payload: the carrier id of a carrier operation, and for a
\* comment or breakpoint the optional text as <<>> (None) or <<text>>
Text_Line(class, payload) == [class |-> class, payload |-> payload]

Yarn_Carrier_Instructions ==
    {"In_Instruction", "Inhook_Instruction", "Releasehook_Instruction", "Out_Instruction",
     "Outhook_Instruction"}

\* the class attribute instruction_type of each instruction class, as its string
instruction_type(class) ==
    CASE class = "In_Instruction" -> "in"
      [] class = "Inhook_Instruction" -> "in"
      [] class = "Releasehook_Instruction" -> "releasehook"
      [] class = "Out_Instruction" -> "out"
      [] class = "Outhook_Instruction" -> "outhook"
      [] class = "Pause_Instruction" -> "pause"

\* an f-string's rendering of an optional text
Format(optional_text) == IF optional_text = <<>> THEN "None" ELSE optional_text[1]

\* __str__ of a line, as the tokens of the text it writes
Knitout_Line_str(l) ==
    CASE l.class \in Yarn_Carrier_Instructions -> <<instruction_type(l.class), l.payload>>
      [] l.class = "Pause_Instruction" -> <<instruction_type(l.class)>>
      [] l.class = "Knitout_BreakPoint" -> <<";", "BreakPoint", ":", Format(l.payload)>>
      [] l.class = "Knitout_Comment_Line" -> <<";", Format(l.payload)>>

\* the parser's actions by the keyword of the line, after the grammar
parse_line(text) ==
    CASE text[1] = "in" -> Text_Line("In_Instruction", text[2])
      [] text[1] = "inhook" -> Text_Line("Inhook_Instruction", text[2])
      [] text[1] = "releasehook" -> Text_Line("Releasehook_Instruction", text[2])
      [] text[1] = "out" -> Text_Line("Out_Instruction", text[2])
      [] text[1] = "outhook" -> Text_Line("Outhook_Instruction", text[2])
      [] text[1] = "pause" -> Text_Line("Pause_Instruction", <<>>)
      [] text[1] = ";" /\ text[2] = "BreakPoint" ->
            Text_Line("Knitout_BreakPoint", IF Len(text) >= 4 THEN <<text[4]>> ELSE <<>>)
      [] OTHER -> Text_Line("Knitout_Comment_Line", <<text[2]>>)

\* writelines([str(line) for line in program])
serialize(p) == [k \in 1..Len(p) |-> Knitout_Line_str(p[k])]

\* Knitout_Parser.parse_knitout_to_instructions
parse_knitout(text) == [k \in 1..Len(text) |-> parse_line(text[k])]

TextCarriers == {1, 2}

TextLines ==
    {Text_Line(c, carrier) : c \in Yarn_Carrier_Instructions, carrier \in TextCarriers}
    \cup {Text_Line("Pause_Instruction", <<>>), Text_Line("Knitout_Comment_Line", <<"note">>),
          Text_Line("Knitout_BreakPoint", <<>>), Text_Line("Knitout_BreakPoint", <<"note">>)}

InitText ==
    \E p \in SeqsUpTo(TextLines, MaxTextLines) :
        round_trip = [program |-> p, text |-> <<>>, parsed |-> <<>>, stage |-> "program"]

Serialize ==
    /\ round_trip.stage = "program"
    /\ round_trip' = [round_trip EXCEPT !.text = serialize(round_trip.program),
                                        !.stage = "text"]
    /\ UNCHANGED <<varsCP, varsExec, varsProg, loop, machine_header, varsPure>>

Parse ==
    /\ round_trip.stage = "text"
    /\ round_trip' = [round_trip EXCEPT !.parsed = parse_knitout(round_trip.text),
                                        !.stage = "parsed"]
    /\ UNCHANGED <<varsCP, varsExec, varsProg, loop, machine_header, varsPure>>

NextText == Serialize \/ Parse

InitSpecText == InitText /\ IdleCP /\ IdleExec /\ IdleProg /\ IdleLoop /\ IdleHeader /\ IdlePure

SpecText == InitSpecText /\ [][NextText]_vars

\* C19: serialization round-trips: parsing the serialized text of a program gives, line by
\* line, a line of the same class with the same payload, for carrier operations (inhook
\* among them), pause, comments and breakpoints with or without text.
C19_RoundTrip ==
    round_trip.stage = "parsed" => round_trip.parsed = round_trip.program

----------------------------------------------------------------------------
(* Properties of two-needle instructions in the executer (Spec) *)

\* C20: an Xfer or Split whose second needle is not the needle aligned with its first
\* needle under the current racking raises, so every transfer of a pass that was executed
\* and recorded goes to the needle aligned with its first needle at the racking of the pass.
C20_MisalignedTransferRaises ==
    \A k \in 1..Len(carriage_passes) :
        \A j \in 1..Len(carriage_passes[k].instructions) :
            LET i == carriage_passes[k].instructions[j]
            IN i.kind \in {"xfer", "split"} =>
                   get_aligned_needle([rack |-> carriage_passes[k].rack], i.needle,
                                      i.needle_2.is_slider) = i.needle_2

----------------------------------------------------------------------------
(* SpecTwin: two executers, one after the other, on the same program lines, from equal
   machines, with the same snapshot targets *)

TwinSnapshotTargets == {0, 2}

\* what an executer leaves behind
Results(stage, m, b) ==
    [stage |-> stage, machine |-> m, body |-> b,
     executed_instructions |-> executed_instructions, line_number |-> line_number,
     carriage_passes |-> carriage_passes, snapshots |-> snapshots,
     status |-> status, raised |-> raised]

\* Knitout_Executer.__init__ of the first executer
InitTwin ==
    /\ src_header = 0
    /\ machine \in {[rack |-> 0, all_needle_rack |-> FALSE, active |-> a, hooked |-> 0, loops |-> {}] :
                       a \in {{}, {1}}}
    /\ body = <<>>
    /\ line_number = <<>>
    /\ executed_instructions = new_header_program(src_header)
    /\ carriage_passes = <<>>
    /\ current_carriage_pass = NoPass
    /\ status = "running"
    /\ snapshot_targets = TwinSnapshotTargets
    /\ snapshots = <<>>
    /\ raised = NoLine
    /\ debugger = FALSE
    /\ debug_calls = <<>>
    /\ left_most_position = NoNumber
    /\ right_most_position = NoNumber
    /\ first_run = Results("first", machine, <<>>)
    /\ IdleCP /\ IdleProg /\ IdleUnit

\* the loop of either executer: the first one reads any line, the second one the line the
\* first one read at this place
RunStep(l) ==
    /\ \/ first_run.stage = "first"
       \/ /\ first_run.stage = "second"
          /\ Len(body) < Len(first_run.body)
          /\ l = [first_run.body[Len(body) + 1] EXCEPT !.line = 0]
    /\ ProcessNextInstruction(l)

FirstRunEnd == first_run.stage = "first" /\ EndProgram

\* a second executer started on the machine the first one left behind
StartSecondExecuterOnUsedMachine ==
    /\ first_run.stage = "first"
    /\ status \in {"done", "error"}
    /\ first_run' = Results("second", first_run.machine, body)
    /\ machine' = machine
    /\ body' = <<>>
    /\ line_number' = <<>>
    /\ executed_instructions' = new_header_program(src_header)
    /\ carriage_passes' = <<>>
    /\ current_carriage_pass' = NoPass
    /\ status' = "running"
    /\ snapshots' = <<>>
    /\ raised' = NoLine
    /\ left_most_position' = NoNumber
    /\ right_most_position' = NoNumber
    /\ UNCHANGED <<src_header, snapshot_targets, debugger, debug_calls, varsCP, varsProg, varsUnit>>

\* Knitout_Executer.__init__ of the second executer, given the lines of the first one's
\* program and a machine equal to the one the first started on
StartSecondExecuter ==
    /\ first_run.stage = "first"
    /\ status \in {"done", "error"}
    /\ first_run' = Results("second", first_run.machine, body)
    /\ machine' = first_run.machine
    /\ body' = <<>>
    /\ line_number' = <<>>
    /\ executed_instructions' = new_header_program(src_header)
    /\ carriage_passes' = <<>>
    /\ current_carriage_pass' = NoPass
    /\ status' = "running"
    /\ snapshots' = <<>>
    /\ raised' = NoLine
    /\ left_most_position' = NoNumber
    /\ right_most_position' = NoNumber
    /\ UNCHANGED <<src_header, snapshot_targets, debugger, debug_calls, varsCP, varsProg, varsUnit>>

SecondRunEnd ==
    /\ first_run.stage = "second"
    /\ Len(body) = Len(first_run.body)
    /\ EndProgram

NextTwin ==
    \/ \E l \in SourceLines : RunStep(l)
    \/ FirstRunEnd
    \/ StartSecondExecuter
    \/ SecondRunEnd

SpecTwin == InitTwin /\ [][NextTwin]_vars

----------------------------------------------------------------------------
(* Properties of merging carriage passes (SpecCP) *)

\* every instruction of next from index k on, taken in order, satisfies can_add on the
\* pass p grown by the ones before it
RECURSIVE AllAddable(_, _, _)
AllAddable(p, next, k) ==
    \/ k > Len(next.instructions)
    \/ /\ can_add_instruction(p, next.instructions[k], next.rack, next.all_needle_rack)
       /\ AllAddable([p EXCEPT !.instructions = Append(@, next.instructions[k]),
                               !.needles_to_instruction =
                                   DictSet(@, next.instructions[k].needle, next.instructions[k])],
                     next, k + 1)

\* C21: merge_carriage_pass is all-or-nothing: when every instruction of the second pass,
\* in order, satisfies can_add on the first, the merge appends all of them in order and
\* returns true; otherwise it returns false and leaves the first pass unchanged; it never
\* fails an assertion, so can_merge_pass implies that the merge succeeds.
C21_MergeAllOrNothing ==
    [][\A next \in NextPasses :
          MergePass(next) =>
              /\ AllAddable(cp, next, 1) =>
                     /\ cp_result' = "True"
                     /\ cp'.instructions = cp.instructions \o next.instructions
              /\ ~AllAddable(cp, next, 1) => cp_result' = "False" /\ cp' = cp
              /\ can_merge_pass(cp, next) => cp_result' = "True"]_vars

----------------------------------------------------------------------------
(* Properties of a run that raises (Spec) *)

\* C22: when the execution of an instruction raises, the run aborts: the error carries the
\* instruction whose execute raised on the machine as it then was, the pass that was being
\* executed is not recorded in carriage_passes, the step that raised appended only lines
\* that come before the offending one, and afterwards no line is executed or appended.
C22_ErrorAbortsRun ==
    [][/\ status' = "error" /\ status # "error" =>
              /\ raised' # NoLine
              /\ execute(machine', raised').error
              /\ \A k \in 1..Len(carriage_passes') : ~InPass(carriage_passes'[k], raised'.line)
              /\ \A j \in (Len(executed_instructions) + 1)..Len(executed_instructions') :
                     executed_instructions'[j].wrap \in {"self", "noop"} =>
                         executed_instructions'[j].instruction.line < raised'.line
       /\ status' # "error" => raised' = NoLine
       /\ status = "error" =>
              UNCHANGED <<machine, body, executed_instructions, carriage_passes,
                          current_carriage_pass, snapshots, raised, status>>]_vars

\* a transfer raised in the middle of a pass whose earlier transfer was already appended
C22_Witness ==
    /\ status = "error"
    /\ raised.kind = "xfer"
    /\ \E j \in 1..Len(executed_instructions) :
           /\ executed_instructions[j].instruction.kind = "xfer"
           /\ executed_instructions[j].instruction.line < raised.line
    /\ carriage_passes = <<>>

----------------------------------------------------------------------------
(* Properties of the debugger hooks (SpecDebug) *)

\* the synthetic rack instructions of the recorded passes and the body lines: the lines
\* the two decorated methods can be given in this state
DecoratedArguments ==
    {body[k] : k \in 1..Len(body)}
    \cup {Rack_Instruction(rack_value_from_int_specification(r, a)) : r \in {0, 1}, a \in BOOLEAN}

\* C23: with a debugger attached, every call of a decorated execution method comes right
\* after one call of debug_instruction for the same line, made when the line was neither
\* executed nor appended yet; no line with a line number gets the hook twice; every line of
\* the executed program has its hook call; a run that raised has exactly one debug_exception
\* call, the last call, for the line the error carries, and the run has ended in that error.
\* With no debugger no hook is called and each decorated method gives what its body gives.
C23_DebuggerHooks ==
    LET c == debug_calls
        IsCall(k, what) == c[k].what = what
    IN /\ debugger =>
              /\ \A k \in 1..Len(c) :
                     /\ IsCall(k, "execution_method") =>
                            /\ k > 1
                            /\ IsCall(k - 1, "debug_instruction")
                            /\ c[k - 1].instruction = c[k].instruction
                            /\ c[k - 1].executed_len = c[k].executed_len
                     /\ IsCall(k, "debug_instruction") =>
                            /\ k < Len(c)
                            /\ IsCall(k + 1, "execution_method")
                            /\ \A j \in 1..Len(c) :
                                   /\ j # k
                                   /\ IsCall(j, "debug_instruction")
                                   /\ has_line_number(c[k].instruction)
                                   => c[j].instruction # c[k].instruction
                            /\ \A j \in 1..c[k].executed_len :
                                   executed_instructions[j].wrap \in {"self", "noop"}
                                   => executed_instructions[j].instruction.line # c[k].instruction.line
                                      \/ ~has_line_number(c[k].instruction)
                     /\ IsCall(k, "debug_exception") =>
                            /\ k = Len(c) /\ k > 2
                            /\ IsCall(k - 1, "execution_method")
                            /\ c[k - 1].instruction = c[k].instruction
                            /\ status = "error"
                            /\ raised = c[k].instruction
              /\ \A j \in 1..Len(executed_instructions) :
                     executed_instructions[j].wrap # "header" =>
                         \E k \in 1..Len(c) :
                             /\ IsCall(k, "debug_instruction")
                             /\ c[k].instruction = executed_instructions[j].instruction
                             /\ c[k].executed_len = j - 1
              /\ status = "error" => Len(c) > 0 /\ IsCall(Len(c), "debug_exception")
       /\ ~debugger =>
              /\ c = <<>>
              /\ status = "running" =>
                     \A i \in DecoratedArguments :
                         /\ execute_and_add_instruction(State, i)
                                = execute_and_add_instruction_method(State, i)
                         /\ add_non_executable_instruction_to_execution(State, i)
                                = add_non_executable_instruction_to_execution_method(State, i)

\* a debugged run in which one line went through its hook and its execution before
\* another line raised
C23_Witness ==
    /\ debugger
    /\ status = "error"
    /\ Len(debug_calls) >= 5
    /\ debug_calls[Len(debug_calls)].what = "debug_exception"

----------------------------------------------------------------------------
(* SpecBreakPoint: Knitout_Program.__init__ and the instructions that follow breakpoints *)

\* a line handed to Knitout_Program(lines): fresh from the parser (no original line number)
\* or taken from an earlier program that numbered it
BreakPointLineKinds == {"breakpoint", "knit", "comment", "header"}
BreakPointLines ==
    {[kind |-> k, original_line_number |-> o, line_number |-> o] :
        k \in BreakPointLineKinds, o \in {NoNumber} \cup (0..(MaxBreakPointLines - 1))}

\* next((l for l in original_program[i + 1:] if isinstance(l, Knitout_Instruction)), None),
\* as a 1-based index, 0 for None; i is the 1-based index of the breakpoint
next_instruction(original_program, i) ==
    LET later == {k \in (i + 1)..Len(original_program) : original_program[k].kind = "knit"}
    IN IF later = {} THEN 0 ELSE CHOOSE k \in later : \A j \in later : k <= j

\* the second loop of Knitout_Program.__init__ from line i on
RECURSIVE AfterBreakPointsFrom(_, _, _)
AfterBreakPointsFrom(original_program, i, instruction_after_breakpoint) ==
    IF i > Len(original_program) THEN instruction_after_breakpoint
    ELSE LET n == next_instruction(original_program, i)
         IN IF original_program[i].kind = "breakpoint" /\ n # 0
            THEN AfterBreakPointsFrom(
                     original_program, i + 1,
                     DictSet(instruction_after_breakpoint,
                             original_program[n].original_line_number, n))
            ELSE AfterBreakPointsFrom(original_program, i + 1, instruction_after_breakpoint)

\* Knitout_Program.__init__: number the lines, then fill _instruction_after_breakpoint
Knitout_Program_init(lines_given) ==
    LET numbered == [k \in 1..Len(lines_given) |-> set_line(lines_given[k], k - 1)]
    IN [stage |-> "built", program |-> numbered,
        instruction_after_breakpoint |-> AfterBreakPointsFrom(numbered, 1, <<>>)]

instruction_pauses_after_breakpoint(p, instruction) ==
    instruction.original_line_number \in DOMAIN p.instruction_after_breakpoint

InitBreakPoint ==
    bp_program \in {[stage |-> "given", program |-> s, instruction_after_breakpoint |-> <<>>] :
                       s \in SeqsUpTo(BreakPointLines, MaxBreakPointLines)}

BuildProgram ==
    /\ bp_program.stage = "given"
    /\ bp_program' = Knitout_Program_init(bp_program.program)
    /\ UNCHANGED <<varsCP, varsExec, varsProg, loop, machine_header, round_trip, rack_op, deep_copy, swap_op>>

NextBreakPoint == BuildProgram

InitSpecBreakPoint ==
    /\ InitBreakPoint
    /\ IdleCP /\ IdleExec /\ IdleProg /\ IdleLoop /\ IdleHeader /\ IdleText /\ IdleRack /\ IdleCopy
    /\ IdleSwap

SpecBreakPoint == InitSpecBreakPoint /\ [][NextBreakPoint]_vars

\* line k of the sequence is the first instruction after some breakpoint line
FollowsBreakPoint(s, k) ==
    /\ s[k].kind = "knit"
    /\ \E b \in 1..(k - 1) :
           /\ s[b].kind = "breakpoint"
           /\ \A j \in (b + 1)..(k - 1) : s[j].kind # "knit"

\* C25: in a program built from a line sequence, instruction_pauses_after_breakpoint(x) is
\* true exactly for the instructions x that are the first instruction after some breakpoint
\* line of the sequence; a breakpoint with no later instruction targets nothing.
C25_PausesExactlyAfterBreakPoint ==
    bp_program.stage = "built" =>
        \A k \in 1..Len(bp_program.program) :
            bp_program.program[k].kind = "knit" =>
                (instruction_pauses_after_breakpoint(bp_program, bp_program.program[k])
                     <=> FollowsBreakPoint(bp_program.program, k))

\* the lines of the sequence came fresh from the parser
FreshLines ==
    \A k \in 1..Len(bp_program.program) : bp_program.program[k].original_line_number = k - 1

\* the statement of C25 for programs built from lines that no program numbered before
C25_FreshLinesPause == FreshLines => C25_PausesExactlyAfterBreakPoint

----------------------------------------------------------------------------
(* SpecRack: parsing 'rack v' for v a multiple of 0.25, v counted in quarters *)

\* knitout_actions.rack_op: Rack_Instruction(R) and the two values read from it
rack_op_action(R) ==
    [stage |-> "parsed", R |-> R, rack |-> rack_of(R), all_needle_rack |-> all_needle_rack_of(R)]

InitRack ==
    rack_op \in {[stage |-> "text", R |-> q, rack |-> 0, all_needle_rack |-> FALSE] :
                    q \in (-MaxRackQuarters)..MaxRackQuarters}

ParseRack ==
    /\ rack_op.stage = "text"
    /\ rack_op' = rack_op_action(rack_op.R)
    /\ UNCHANGED <<varsCP, varsExec, varsProg, loop, machine_header, round_trip, bp_program, deep_copy, swap_op>>

NextRack == ParseRack

InitSpecRack ==
    /\ InitRack
    /\ IdleCP /\ IdleExec /\ IdleProg /\ IdleLoop /\ IdleHeader /\ IdleText
    /\ IdleBreakPoint /\ IdleCopy /\ IdleSwap

SpecRack == InitSpecRack /\ [][NextRack]_vars

\* n = floor(q / 4) for q counted in quarters
IsFloorOfQuarters(n, q) == 4 * n <= q /\ q < 4 * n + 4

----------------------------------------------------------------------------
(* SpecCopy: Knitout_Line.__deepcopy__ *)

\* the classes of the lines that are copied, each with its method resolution order cut
\* down to the classes that define _deepcopy_defaults
CopiedClasses ==
    {"Knitout_Version_Line", "Knitout_Comment_Line", "Knit_Instruction", "Tuck_Instruction",
     "Xfer_Instruction", "Drop_Instruction"}

MRO(cls) ==
    CASE cls = "Knit_Instruction" ->
            <<"Loop_Making_Instruction", "Dropping_Instruction", "Needle_Instruction", "Knitout_Line">>
      [] cls = "Tuck_Instruction" -> <<"Loop_Making_Instruction", "Needle_Instruction", "Knitout_Line">>
      [] cls = "Xfer_Instruction" -> <<"Needle_Instruction", "Knitout_Line">>
      [] cls = "Drop_Instruction" -> <<"Dropping_Instruction", "Needle_Instruction", "Knitout_Line">>
      [] OTHER -> <<"Knitout_Line">>

IsNeedleClass(cls) == cls \in {"Knit_Instruction", "Tuck_Instruction", "Xfer_Instruction", "Drop_Instruction"}

\* None of a line number, and None of a source program name
NoSource == "None"

\* cls._deepcopy_defaults of the classes that define it
deepcopy_defaults(cls) ==
    CASE cls = "Knitout_Line" ->
            [k \in {"_original_line_number", "_line_number", "_source_program"} |->
                IF k = "_source_program" THEN NoSource ELSE NoNumber]
      [] cls = "Needle_Instruction" ->
            [k \in {"_moved_loops", "_made_loops", "_dropped_loops"} |-> <<>>]
      [] cls = "Dropping_Instruction" -> [k \in {"_dropped_loops"} |-> <<>>]
      [] cls = "Loop_Making_Instruction" -> [k \in {"_moved_loops"} |-> <<>>]

\* dict.update
DictUpdate(d, e) == [k \in (DOMAIN d) \cup (DOMAIN e) |-> IF k \in DOMAIN e THEN e[k] ELSE d[k]]

\* the defaults of the line's own class only
own_deepcopy_defaults(cls) == deepcopy_defaults(MRO(cls)[1])

\* _collect_deepcopy_defaults: over reversed(type(self).__mro__)
RECURSIVE CollectFrom(_, _)
CollectFrom(mro, k) ==
    IF k > Len(mro) THEN <<>>
    ELSE DictUpdate(CollectFrom(mro, k + 1), deepcopy_defaults(mro[k]))

collect_deepcopy_defaults(cls) == CollectFrom(MRO(cls), 1)

\* Knitout_Line.__new__ followed by __init__: both take a creation time, the second stays;
\* the __dict__ of the new line
Construct(cls, payload, lines_made) ==
    LET base == [k \in {"_creation_time", "payload", "_original_line_number",
                        "_line_number", "_source_program"} |->
                    CASE k = "_creation_time" -> lines_made + 1
                      [] k = "payload" -> payload
                      [] k = "_source_program" -> NoSource
                      [] OTHER -> NoNumber]
    IN IF IsNeedleClass(cls)
       THEN DictUpdate(base, [k \in {"_moved_loops", "_made_loops", "_dropped_loops"} |-> <<>>])
       ELSE base

\* Knitout_Line.set_line on the __dict__ of a line
set_line_with_source(d, n, source) ==
    [d EXCEPT !["_original_line_number"] = IF @ = NoNumber THEN n ELSE @,
              !["_source_program"] = IF source # NoSource THEN source ELSE @,
              !["_line_number"] = n]

\* Knitout_Line.__deepcopy__: cls.__new__ gives the creation time, every other attribute
\* is the collected default or a deep copy of the original's value
deepcopy(cls, d, lines_made) ==
    LET defaults == collect_deepcopy_defaults(cls)
    IN [k \in DOMAIN d |->
           IF k = "_creation_time" THEN lines_made
           ELSE IF k \in DOMAIN defaults THEN defaults[k]
           ELSE d[k]]

CopyLineNumbers == {0, 1}
CopySources == {NoSource, "file.k"}

InitCopy ==
    deep_copy \in {[stage |-> "line", class |-> c, line |-> Construct(c, p, n),
                    copy |-> <<>>, lines_made |-> n + 2] :
                      c \in CopiedClasses, p \in {1, 2}, n \in {0, 3}}

CopySetLine(n, source) ==
    /\ deep_copy.stage = "line"
    /\ deep_copy' = [deep_copy EXCEPT !.line = set_line_with_source(@, n, source)]
    /\ UNCHANGED <<varsCP, varsExec, varsProg, loop, machine_header, round_trip, bp_program, rack_op, swap_op>>

\* execute on a needle instruction: the setters store the loops the machine returned
CopyExecute ==
    /\ deep_copy.stage = "line"
    /\ IsNeedleClass(deep_copy.class)
    /\ deep_copy' = [deep_copy EXCEPT !.line =
           CASE deep_copy.class = "Knit_Instruction" ->
                    [@ EXCEPT !["_dropped_loops"] = <<1>>, !["_made_loops"] = <<2>>]
             [] deep_copy.class = "Tuck_Instruction" -> [@ EXCEPT !["_made_loops"] = <<2>>]
             [] deep_copy.class = "Xfer_Instruction" -> [@ EXCEPT !["_moved_loops"] = <<1>>]
             [] deep_copy.class = "Drop_Instruction" -> [@ EXCEPT !["_dropped_loops"] = <<1>>]]
    /\ UNCHANGED <<varsCP, varsExec, varsProg, loop, machine_header, round_trip, bp_program, rack_op, swap_op>>

DeepCopy ==
    /\ deep_copy.stage = "line"
    /\ deep_copy' = [deep_copy EXCEPT !.stage = "copied",
                                      !.copy = deepcopy(deep_copy.class, deep_copy.line,
                                                        deep_copy.lines_made),
                                      !.lines_made = @ + 1]
    /\ UNCHANGED <<varsCP, varsExec, varsProg, loop, machine_header, round_trip, bp_program, rack_op, swap_op>>

NextCopy ==
    \/ \E n \in CopyLineNumbers, s \in CopySources : CopySetLine(n, s)
    \/ CopyExecute
    \/ DeepCopy

InitSpecCopy ==
    /\ InitCopy
    /\ IdleCP /\ IdleExec /\ IdleProg /\ IdleLoop /\ IdleHeader /\ IdleText
    /\ IdleBreakPoint /\ IdleRack /\ IdleSwap

SpecCopy == InitSpecCopy /\ [][NextCopy]_vars

\* C27: a deep copy of a line has the class and payload of the original, no original line
\* number, no current line number, no source program, empty made, moved and dropped loop
\* lists and a greater creation time; making it changes no field of the original.
C27_DeepCopyResets ==
    [][DeepCopy =>
          LET original == deep_copy.line
              result == deep_copy'.copy
          IN /\ deep_copy'.class = deep_copy.class
             /\ DOMAIN result = DOMAIN original
             /\ result["payload"] = original["payload"]
             /\ result["_original_line_number"] = NoNumber
             /\ result["_line_number"] = NoNumber
             /\ result["_source_program"] = NoSource
             /\ IsNeedleClass(deep_copy.class) =>
                    /\ result["_made_loops"] = <<>>
                    /\ result["_moved_loops"] = <<>>
                    /\ result["_dropped_loops"] = <<>>
             /\ result["_creation_time"] > original["_creation_time"]
             /\ deep_copy'.line = original]_vars

\* the copy of a knit that was numbered, given a source and executed
C27_Witness ==
    /\ deep_copy.stage = "copied"
    /\ deep_copy.class = "Knit_Instruction"
    /\ deep_copy.line["_original_line_number"] = 1
    /\ deep_copy.line["_line_number"] = 0
    /\ deep_copy.line["_source_program"] = "file.k"
    /\ deep_copy.line["_made_loops"] # <<>>
    /\ deep_copy.line["_dropped_loops"] # <<>>

-----------------------------------------------------------------------------
(* Knitting_Machine_Header.header_lines: the lines a header emits *)

\* the key order of the dict literal that set_header_by_specification assigns
set_header_by_specification_keys ==
    <<"Machine", "Gauge", "Position", "Carriers", "Knitout_Version">>

\* the key order of self._header_lines after _update_header: a dict keeps the position of
\* a key that is assigned again and puts a new key last
update_header_keys(keys, header_line) ==
    IF \E k \in 1..Len(keys) : keys[k] = header_line.header_type THEN keys
    ELSE Append(keys, header_line.header_type)

\* Knitting_Machine_Header.header_lines: list(self._header_lines.values())
header_lines(header) == [k \in 1..Len(header.keys) |-> header.header_lines[header.keys[k]]]

\* Knitting_Machine_Header.__init__
InitHeaderLines ==
    machine_header = [header_lines |-> set_header_by_specification,
                      keys |-> set_header_by_specification_keys,
                      updates |-> <<>>]

\* Knitting_Machine_Header._update_header(header_line)
UpdateHeader(header_line) ==
    /\ Len(machine_header.updates) < MaxHeaderLines
    /\ machine_header' =
          [header_lines |-> update_header(machine_header.header_lines, header_line).header_lines,
           keys |-> update_header_keys(machine_header.keys, header_line),
           updates |-> Append(machine_header.updates, header_line)]
    /\ UNCHANGED <<varsCP, varsExec, varsProg, loop, round_trip, varsPure>>

NextHeaderLines ==
    \E t \in Knitout_Header_Line_Type, v \in HeaderValues :
        UpdateHeader(Knitout_Header_Line(t, v))

InitSpecHeaderLines ==
    InitHeaderLines /\ IdleCP /\ IdleExec /\ IdleProg /\ IdleLoop /\ IdleText /\ IdlePure

SpecHeaderLines == InitSpecHeaderLines /\ [][NextHeaderLines]_vars

\* the order in which the lines of a header are to be emitted
CanonicalOrder == <<"Knitout_Version", "Machine", "Gauge", "Position", "Carriers">>

\* the header holds exactly one entry per header kind, before and after updates
OneEntryPerKind ==
    LET emitted == header_lines(machine_header)
    IN /\ DOMAIN machine_header.header_lines = Knitout_Header_Line_Type
       /\ \A t \in Knitout_Header_Line_Type :
             Cardinality({k \in 1..Len(emitted) : emitted[k].header_type = t}) = 1

\* C28: a header holds exactly one entry per header kind and emits its lines in the
\* order Version, Machine, Gauge, Position, Carriers, when built from a specification and
\* after every sequence of header-line updates.
C28_HeaderCanonicalOrder ==
    LET emitted == header_lines(machine_header)
    IN /\ OneEntryPerKind
       /\ [k \in 1..Len(emitted) |-> emitted[k].header_type] = CanonicalOrder

\* what the code emits: the version line comes last
HeaderEmitsVersionLast ==
    LET emitted == header_lines(machine_header)
    IN [k \in 1..Len(emitted) |-> emitted[k].header_type] =
          <<"Machine", "Gauge", "Position", "Carriers", "Knitout_Version">>

-----------------------------------------------------------------------------
(* SpecSwap: Knitout_Program.swap_line on lines that carry a source program name *)

\* longest program a line is swapped into
MaxSwapLines == 3

\* Knitout_Program.__init__: for i, line in enumerate(self): line.set_line(i, source)
Knitout_Program_with_source(program_lines, source_program_name) ==
    [source_program |-> source_program_name,
     program |-> [k \in 1..Len(program_lines) |->
                     set_line_with_source(program_lines[k], k - 1, source_program_name)]]

\* Knitout_Program.swap_line(line_index, new_line, new_source): the program and the new
\* line afterwards
swap_line_with_source(prog, line_index, new_line, new_source) ==
    LET source == IF new_source # NoSource THEN new_source ELSE prog.source_program
        set == set_line_with_source(new_line, prog.program[line_index + 1]["_line_number"],
                                    source)
    IN [prog EXCEPT !.program = [@ EXCEPT ![line_index + 1] = set]]

\* the source names of a program, of the program a new line came from, and of the call
ProgramSources == {NoSource, "file.k"}
NewLineSources == {NoSource, "other.k"}
SwapSources == {NoSource, "new.k"}
\* the line numbers a new line has from the program it was in before
NewLineNumbers == {0, MaxSwapLines + 2}

\* comment lines 1..n are made and a program is built from them; one more line is made
InitSwap ==
    \E n \in 1..MaxSwapLines, source \in ProgramSources :
        swap_op = [stage |-> "built",
                   prog |-> Knitout_Program_with_source(
                               [k \in 1..n |-> Construct("Knitout_Comment_Line", k, 2 * k)],
                               source),
                   new_line |-> Construct("Knitout_Comment_Line", n + 1, 2 * (n + 1)),
                   second_line |-> Construct("Knitout_Comment_Line", n + 2, 2 * (n + 2)),
                   line_index |-> NoNumber, new_source |-> NoSource, raised |-> "None",
                   count |-> 0]

\* the new line was a line of another program before: set_line(n, source)
SwapSetLine(n, source) ==
    /\ swap_op.stage = "built"
    /\ swap_op.new_line["_original_line_number"] = NoNumber
    /\ swap_op' = [swap_op EXCEPT !.new_line = set_line_with_source(@, n, source)]
    /\ UNCHANGED <<varsCP, varsExec, varsProg, loop, machine_header, round_trip,
                   bp_program, rack_op, deep_copy>>

\* program.swap_line(line_index, new_line, new_source)
SwapLineWithSource(line_index, new_source) ==
    /\ swap_op.stage = "built"
    /\ line_index < Len(swap_op.prog.program)
    /\ swap_op' = [swap_op EXCEPT !.stage = "swapped",
                                  !.prog = swap_line_with_source(@, line_index,
                                                                 swap_op.new_line, new_source),
                                  !.line_index = line_index,
                                  !.new_source = new_source]
    /\ UNCHANGED <<varsCP, varsExec, varsProg, loop, machine_header, round_trip,
                   bp_program, rack_op, deep_copy>>

\* Knitout_Program.swap_lines(start_index, new_lines, new_source): the program and the new
\* lines afterwards; the assignment to self[start_index + 1] raises IndexError when that
\* index is outside the list
RECURSIVE SwapLinesFrom(_, _, _, _, _, _)
SwapLinesFrom(prog, start_index, start_line_number, new_lines, source, k) ==
    IF k > Len(new_lines)
    THEN [prog |-> prog, new_lines |-> new_lines, raised |-> "None"]
    ELSE LET set == set_line_with_source(new_lines[k], start_line_number + k - 1, source)
             set_lines == [new_lines EXCEPT ![k] = set]
         IN IF start_index + 1 >= Len(prog.program)
            THEN [prog |-> prog, new_lines |-> set_lines, raised |-> "IndexError"]
            ELSE SwapLinesFrom([prog EXCEPT !.program = [@ EXCEPT ![start_index + 2] = set]],
                               start_index, start_line_number, set_lines, source, k + 1)

swap_lines_with_source(prog, start_index, new_lines, new_source) ==
    SwapLinesFrom(prog, start_index, prog.program[start_index + 1]["_line_number"], new_lines,
                  IF new_source # NoSource THEN new_source ELSE prog.source_program, 1)

\* program.swap_lines(start_index, [new_line]) or
\* program.swap_lines(start_index, [new_line, second_line])
SwapLinesWithSource(start_index, count) ==
    /\ swap_op.stage = "built"
    /\ start_index < Len(swap_op.prog.program)
    /\ LET new_lines == SubSeq(<<swap_op.new_line, swap_op.second_line>>, 1, count)
           r == swap_lines_with_source(swap_op.prog, start_index, new_lines, NoSource)
       IN swap_op' = [swap_op EXCEPT !.stage = "swapped_lines",
                                     !.prog = r.prog,
                                     !.line_index = start_index,
                                     !.count = count,
                                     !.raised = r.raised]
    /\ UNCHANGED <<varsCP, varsExec, varsProg, loop, machine_header, round_trip,
                   bp_program, rack_op, deep_copy>>

NextSwap ==
    \/ \E n \in NewLineNumbers, source \in NewLineSources : SwapSetLine(n, source)
    \/ \E line_index \in 0..(MaxSwapLines - 1), new_source \in SwapSources :
          SwapLineWithSource(line_index, new_source)
    \/ \E start_index \in 0..(MaxSwapLines - 1), count \in 1..2 :
          SwapLinesWithSource(start_index, count)

InitSpecSwap ==
    /\ InitSwap
    /\ IdleCP /\ IdleExec /\ IdleProg /\ IdleLoop /\ IdleHeader /\ IdleText
    /\ IdleBreakPoint /\ IdleRack /\ IdleCopy

SpecSwap == InitSpecSwap /\ [][NextSwap]_vars

\* swap_line has put the new line at the index, with the index as current line number
\* and the other lines as they were
SwapPutsNewLineAtIndex ==
    swap_op.stage = "swapped" =>
        LET i == swap_op.line_index
            placed == swap_op.prog.program[i + 1]
        IN /\ placed["payload"] = swap_op.new_line["payload"]
           /\ placed["_creation_time"] = swap_op.new_line["_creation_time"]
           /\ placed["_line_number"] = i
           /\ \A k \in 1..Len(swap_op.prog.program) :
                 k # i + 1 => /\ swap_op.prog.program[k]["payload"] = k
                              /\ swap_op.prog.program[k]["_line_number"] = k - 1

\* the new line keeps an original line number that was set and otherwise takes the line
\* number of the position
SwapKeepsOriginalLineNumber ==
    swap_op.stage = "swapped" =>
        LET i == swap_op.line_index
            placed == swap_op.prog.program[i + 1]
        IN placed["_original_line_number"] =
              IF swap_op.new_line["_original_line_number"] # NoNumber
              THEN swap_op.new_line["_original_line_number"]
              ELSE i

\* the new line keeps a source program that was set and otherwise takes the source of the
\* call or, without one, of the program
SwapKeepsSourceProgram ==
    swap_op.stage = "swapped" =>
        LET i == swap_op.line_index
            placed == swap_op.prog.program[i + 1]
        IN placed["_source_program"] =
              IF swap_op.new_line["_source_program"] # NoSource
              THEN swap_op.new_line["_source_program"]
              ELSE IF swap_op.new_source # NoSource THEN swap_op.new_source
              ELSE swap_op.prog.source_program

\* C29: swap_line(i, new) puts new at index i with current line number i and keeps new's
\* original line number and source program when they were already set; only when they are
\* unset does new take the line number of the replaced position and the source of the
\* program.
C29_SwapLineKeepsOriginAndSource ==
    /\ SwapPutsNewLineAtIndex
    /\ SwapKeepsOriginalLineNumber
    /\ SwapKeepsSourceProgram

\* a call without new_source never changes a source program that the new line has
SwapWithoutSourceKeepsSourceProgram ==
    (swap_op.stage = "swapped" /\ swap_op.new_source = NoSource) => SwapKeepsSourceProgram

-----------------------------------------------------------------------------
(* Properties of add_kicks (SpecCP) *)

\* the kick sequences AddKicks is called with
KickSeqs == {<<k1>> : k1 \in Kicks} \cup {<<k1, k2>> : k1 \in Kicks, k2 \in Kicks}

\* the instructions are in the order of the direction at the rack
OrderedByDirection(seq, direction, rack) ==
    \A j, k \in 1..Len(seq) :
        j < k => ~SortsBefore(direction, seq[k].needle, seq[j].needle, rack)

\* what the call of add_kicks(kicks) that has just ended had to do
AddKicksContract(kicks) ==
    LET wrong_class == ~IsKnit_Pass_Instruction(first_instruction(cp))
        occupied == \E k \in 1..Len(kicks) : instruction_on_slot(cp, kicks[k].needle.position)
        other_carriers ==
            \E k \in 1..Len(kicks) : kicks[k].carrier_set # first_instruction(cp).carrier_set
        given == cp.instructions \o kicks
    IN /\ cp_result' \in {"ValueError", "IndexError", "None"}
       /\ cp_result' = "ValueError" => ((wrong_class \/ other_carriers) /\ cp' = cp)
       /\ cp_result' = "IndexError" => (occupied /\ cp' = cp)
       /\ cp_result' = "None" =>
             /\ ~wrong_class /\ ~occupied /\ ~other_carriers
             /\ Len(cp'.instructions) = Len(cp.instructions) + Len(kicks)
             /\ \A k \in 1..Len(given) :
                   Cardinality({j \in 1..Len(cp'.instructions) :
                                   cp'.instructions[j] = given[k]}) = 1
             /\ OrderedByDirection(cp'.instructions, first_instruction(cp).direction, cp.rack)

\* C30: add_kicks on a pass either raises (ValueError for a pass that is not of the
\* knit-pass class or for a kick with another carrier set, IndexError for a kick on an
\* occupied slot) and leaves the pass unchanged, or succeeds with the pass holding every
\* previous instruction and every given kick exactly once, longer by the number of kicks
\* (also when two kicks name the same slot), in the order of the pass's direction.
C30_AddKicksAllOrNothing ==
    [][\A kicks \in KickSeqs : AddKicks(kicks) => AddKicksContract(kicks)]_vars

\* the same for calls whose kicks are on different needles
AddKicksOnDifferentNeedles ==
    [][\A kicks \in KickSeqs :
          (AddKicks(kicks) /\ \A j, k \in 1..Len(kicks) :
                                 kicks[j].needle = kicks[k].needle => j = k)
             => AddKicksContract(kicks)]_vars

-----------------------------------------------------------------------------
(* Properties of the executer's position range (Spec) *)

\* the slots of all needle instructions of all executed carriage passes
ExecutedSlots == UNION {needle_slots(carriage_passes[n]) : n \in 1..Len(carriage_passes)}

\* C31: after a run, left_most_position is the least and right_most_position the greatest
\* slot (under the racking of the pass) over all needle instructions of all executed
\* carriage passes, undirected Xfer and Drop passes included; both are None iff no pass was
\* executed.
C31_PositionsSpanExecutedSlots ==
    status \in {"done", "error"} =>
        /\ (left_most_position = NoNumber) <=> (carriage_passes = <<>>)
        /\ (right_most_position = NoNumber) <=> (carriage_passes = <<>>)
        /\ carriage_passes # <<>> =>
              /\ left_most_position \in ExecutedSlots
              /\ right_most_position \in ExecutedSlots
              /\ \A s \in ExecutedSlots : left_most_position <= s /\ s <= right_most_position

\* the same for runs whose passes all have their instructions in slot order
PositionsSpanSlotsOfOrderedPasses ==
    (\A n \in 1..Len(carriage_passes) :
        \/ OrderedByDirection(carriage_passes[n].instructions, Rightward, carriage_passes[n].rack)
        \/ OrderedByDirection(carriage_passes[n].instructions, Leftward, carriage_passes[n].rack))
       => C31_PositionsSpanExecutedSlots

-----------------------------------------------------------------------------
(* Knitout_Program.next_loop_forming_instruction_index (SpecBreakPoint) *)

\* next((i + index for i, line in enumerate(self._program[index + 1:])
\*       if isinstance(line, Loop_Making_Instruction)), None); index is 0-based, NoNumber
\* stands for None
next_loop_forming_instruction_index(prog, index) ==
    LET slice == SubSeq(prog, index + 2, Len(prog))
        found == {i \in 0..(Len(slice) - 1) : slice[i + 1].kind \in Loop_Making_Instructions}
    IN IF found = {} THEN NoNumber
       ELSE (CHOOSE i \in found : \A j \in found : i <= j) + index

\* the 0-based indices after index that hold a loop-making instruction
LaterLoopMaking(prog, index) ==
    {j \in (index + 1)..(Len(prog) - 1) : prog[j + 1].kind \in Loop_Making_Instructions}

\* C32: next_loop_forming_instruction_index(i) returns the smallest index j > i such that
\* the line at j is a loop-making instruction, or None when there is no such line; the line
\* at the returned index is a loop-making instruction.
C32_NextLoopFormingIndex ==
    bp_program.stage = "built" =>
        \A index \in 0..(Len(bp_program.program) - 1) :
            LET j == next_loop_forming_instruction_index(bp_program.program, index)
                later == LaterLoopMaking(bp_program.program, index)
            IN IF later = {} THEN j = NoNumber
               ELSE /\ j \in later
                    /\ \A k \in later : j <= k

\* what the code returns: one less than the index of the next loop-making instruction
NextLoopFormingIndexIsOneShort ==
    bp_program.stage = "built" =>
        \A index \in 0..(Len(bp_program.program) - 1) :
            LET j == next_loop_forming_instruction_index(bp_program.program, index)
                later == LaterLoopMaking(bp_program.program, index)
            IN IF later = {} THEN j = NoNumber
               ELSE /\ j + 1 \in later
                    /\ \A k \in later : j + 1 <= k

-----------------------------------------------------------------------------
(* Properties of swap_lines (SpecSwap) *)

\* the k-th new line of the swap_lines call that has ended
SwappedIn(k) == <<swap_op.new_line, swap_op.second_line>>[k]

\* the program before the call: comment line k at index k - 1 with that line number
LineBeforeSwap(k) ==
    /\ swap_op.prog.program[k]["payload"] = k
    /\ swap_op.prog.program[k]["_line_number"] = k - 1

\* swap_lines(start, new_lines) with count new lines has replaced the lines at
\* start .. start + count - 1 and nothing else
SwapLinesReplaced(count) ==
    LET start == swap_op.line_index
    IN /\ swap_op.raised = "None"
       /\ \A k \in 1..Len(swap_op.prog.program) :
             IF k - 1 \in start..(start + count - 1)
             THEN /\ swap_op.prog.program[k]["payload"] = SwappedIn(k - start)["payload"]
                  /\ swap_op.prog.program[k]["_line_number"] = k - 1
             ELSE LineBeforeSwap(k)

\* C33: swap_lines(start, new_lines) replaces the lines at indices
\* start .. start + len(new_lines) - 1 with new_lines in order, each new line getting the
\* current line number of the position it takes, and leaves every other line of the
\* program untouched.
C33_SwapLinesReplacesRange ==
    (/\ swap_op.stage = "swapped_lines"
     /\ swap_op.line_index + swap_op.count <= Len(swap_op.prog.program))
        => SwapLinesReplaced(swap_op.count)

\* what the code does when it does not raise: the line at start + 1 is the last new line
\* and every other line is as before
SwapLinesWritesNextIndex ==
    (swap_op.stage = "swapped_lines" /\ swap_op.raised = "None") =>
        \A k \in 1..Len(swap_op.prog.program) :
            IF k = swap_op.line_index + 2
            THEN swap_op.prog.program[k]["payload"] \in
                    {swap_op.new_line["payload"], swap_op.second_line["payload"]}
            ELSE LineBeforeSwap(k)

-----------------------------------------------------------------------------
(* Carriage_Pass.instruction_by_slot (SpecCP) *)

\* Carriage_Pass.instruction_by_slot: what was raised ("None" if nothing) and the
\* instructions returned, the front needle's first
instruction_by_slot(p, slot) ==
    IF ~instruction_on_slot(p, slot)
    THEN [raised |-> "IndexError", returned |-> <<>>]
    ELSE LET front_needle == Needle(TRUE, slot, FALSE)
             back_needle == Needle(FALSE, slot, FALSE)
             has_front == front_needle \in DOMAIN p.needles_to_instruction
             has_back == back_needle \in DOMAIN p.needles_to_instruction
         IN IF has_front /\ has_back
            THEN [raised |-> "None",
                  returned |-> <<p.needles_to_instruction[front_needle],
                                 p.needles_to_instruction[back_needle]>>]
            ELSE IF has_front
            THEN [raised |-> "None", returned |-> <<p.needles_to_instruction[front_needle]>>]
            ELSE IF has_back
            THEN [raised |-> "None", returned |-> <<p.needles_to_instruction[back_needle]>>]
            ELSE [raised |-> "IndexError", returned |-> <<>>]

\* the slots a pass of the model can be asked for
Slots == 0..(MaxPos + 2)

\* the instructions of the pass whose needle is on the slot under the racking of the pass
OnSlot(p, slot) ==
    {k \in 1..Len(p.instructions) : slot_by_racking(p.instructions[k].needle, p.rack) = slot}

\* instruction_by_slot(slot) does what is asked of it on the pass
InstructionBySlotContract(p, slot) ==
    LET r == instruction_by_slot(p, slot)
    IN /\ (r.raised = "IndexError") <=> ~instruction_on_slot(p, slot)
       /\ r.raised = "None" =>
             /\ {r.returned[j] : j \in 1..Len(r.returned)} =
                   {p.instructions[k] : k \in OnSlot(p, slot)}
             /\ Len(r.returned) = Cardinality(OnSlot(p, slot))
             /\ Len(r.returned) = 2 =>
                   r.returned[1].needle.is_front /\ ~r.returned[2].needle.is_front

\* C34: for every carriage pass at any racking, instruction_by_slot(s) raises IndexError
\* iff instruction_on_slot(s) is false; an instruction whose needle is on slot s under the
\* racking of the pass (back-bed needles at a rack other than 0 included) is returned, as a
\* (front, back) pair when both beds are used at the slot.
C34_InstructionBySlot ==
    cp # NoPass => \A slot \in Slots : InstructionBySlotContract(cp, slot)

\* the same for passes at rack 0
InstructionBySlotAtRackZero ==
    (cp # NoPass /\ cp.rack = 0) => \A slot \in Slots : InstructionBySlotContract(cp, slot)

-----------------------------------------------------------------------------
(* SpecRerun: test_and_organize_instructions called again on a constructed executer *)

\* one iteration of the loop of test_and_organize_instructions, in __init__ over any body
\* and in the second call over the same line objects
RerunProcessNextInstruction(l) ==
    /\ status = "running"
    /\ Len(body) < MaxBody
    /\ first_run.stage = "rerun" =>
          /\ Len(body) < Len(first_run.body)
          /\ [l EXCEPT !.line = Len(body) + 1] = first_run.body[Len(body) + 1]
    /\ LET instruction == [l EXCEPT !.line = Len(body) + 1]
           st0 == IF first_run.stage = "rerun" THEN State
                  ELSE [State EXCEPT !.line_number = Append(@, InitialLineNumber(Len(body) + 1))]
           st == process_next_instruction(st0, instruction)
       IN /\ body' = Append(body, instruction)
          /\ Store(st)
          /\ status' = IF st.error THEN "error" ELSE "running"
    /\ UNCHANGED <<src_header, varsCP, varsProg, varsUnit>>

\* _end_program of either call
RerunEndProgram ==
    /\ first_run.stage = "rerun" => Len(body) = Len(first_run.body)
    /\ EndProgram

\* executer.test_and_organize_instructions() on the executer that __init__ returned:
\* process and _current_carriage_pass are reset, everything else stays
TestAndOrganizeAgain ==
    /\ first_run.stage = "first"
    /\ status = "done"
    /\ first_run' = Results("rerun", first_run.machine, body)
    /\ body' = <<>>
    /\ current_carriage_pass' = NoPass
    /\ status' = "running"
    /\ UNCHANGED <<machine, line_number, executed_instructions, carriage_passes, snapshots,
                   raised, left_most_position, right_most_position, src_header,
                   snapshot_targets, debugger, debug_calls, varsCP, varsProg, varsUnit>>

NextRerun ==
    \/ \E l \in SourceLines : RerunProcessNextInstruction(l)
    \/ RerunEndProgram
    \/ TestAndOrganizeAgain

SpecRerun == InitTwin /\ [][NextRerun]_vars

\* C35: calling test_and_organize_instructions() again on a constructed executer does not
\* accumulate state: afterwards carriage_passes holds one pass per carriage pass of the
\* program, as many as after construction.
C35_RerunDoesNotAccumulate ==
    (first_run.stage = "rerun" /\ status = "done") =>
        Len(carriage_passes) = Len(first_run.carriage_passes)

\* what the code does: the passes of the second call are appended to those of the first
RerunAppendsPasses ==
    (first_run.stage = "rerun" /\ status = "done") =>
        /\ Len(carriage_passes) >= Len(first_run.carriage_passes)
        /\ SubSeq(carriage_passes, 1, Len(first_run.carriage_passes)) = first_run.carriage_passes
        /\ SubSeq(executed_instructions, 1, Len(first_run.executed_instructions))
              = first_run.executed_instructions

-----------------------------------------------------------------------------
\* C36: the executed program preserves source order: of two body lines that both appear
\* in the executed program (as themselves or wrapped in a No-Op), the one that is earlier
\* in the source is earlier in the executed program; a comment written between two needle
\* instructions of one carriage pass is emitted between them.
C36_ExecutedKeepsSourceOrder ==
    \A a, b \in 1..Len(body) :
        (a < b /\ InExecuted(a) /\ InExecuted(b)) => ExecutedIndexOf(a) < ExecutedIndexOf(b)

\* what the code keeps: the lines that are not needle instructions stay in source order
OtherLinesKeepSourceOrder ==
    \A a, b \in 1..Len(body) :
        (/\ a < b
         /\ ~IsNeedle_Instruction(body[a])
         /\ ~IsNeedle_Instruction(body[b])
         /\ InExecuted(a)
         /\ InExecuted(b)) => ExecutedIndexOf(a) < ExecutedIndexOf(b)

-----------------------------------------------------------------------------
\* the instruction lists of the passes, one behind the other
RECURSIVE PassInstructions(_)
PassInstructions(passes) ==
    IF passes = <<>> THEN <<>>
    ELSE passes[1].instructions \o PassInstructions(Tail(passes))

\* the places of the executed program that hold body line k, as itself or in a No-Op
ExecutedPlacesOf(k) ==
    {j \in 1..Len(executed_instructions) :
        /\ executed_instructions[j].wrap \in {"self", "noop"}
        /\ executed_instructions[j].instruction.line = k}

-----------------------------------------------------------------------------
\* C38: running the executer leaves the source program unchanged: after the run every
\* line of the source program still has its index in the source program as current line
\* number, although its instructions were appended to the executed program.
C38_SourceLineNumbersUnchanged ==
    status = "done" =>
        \A k \in 1..Len(body) : line_number[k] = SourceOriginalLineNumber(src_header, k)

\* what the code does: a source line appended to the executed program as itself carries
\* its place in the executed program; every other source line keeps its number
SourceLinesTakeExecutedPlace ==
    \A k \in 1..Len(body) :
        IF \E j \in 1..Len(executed_instructions) :
               /\ executed_instructions[j].wrap = "self"
               /\ executed_instructions[j].instruction.line = k
        THEN line_number[k] = ExecutedIndexOf(k) - 1
        ELSE line_number[k] = SourceOriginalLineNumber(src_header, k)

-----------------------------------------------------------------------------
(* SpecParser: Knitout_Parser.parse_knitout_to_instructions over a text with blank and *)
(* invalid lines; round_trip holds the text and the result *)

MaxParserLines == 3

\* a source line as its tokens; a line of whitespace only has none
BlankLine == <<>>

\* re.match(r"^\s*$", line)
IsBlank(source_line) == source_line = <<>>

\* the parser raises parglare's SyntaxError on a line that starts no statement of the grammar
IsSyntaxError(source_line) == source_line[1] \notin {"pause", ";"}

ParserLines == {BlankLine, <<"pause">>, <<";", "note">>, <<"knit">>}

\* the loop of parse_knitout_to_instructions from index i (0-based): the lines parsed so
\* far, each with the index of the source line it was parsed from, or the index the
\* Knitout_ParseError is raised with
RECURSIVE ParseLinesFrom(_, _, _)
ParseLinesFrom(source_lines, i, codes) ==
    IF i >= Len(source_lines) THEN [codes |-> codes, error |-> NoNumber]
    ELSE IF IsBlank(source_lines[i + 1]) THEN ParseLinesFrom(source_lines, i + 1, codes)
    ELSE IF IsSyntaxError(source_lines[i + 1]) THEN [codes |-> codes, error |-> i]
    ELSE ParseLinesFrom(source_lines, i + 1,
                        Append(codes, [code |-> parse_line(source_lines[i + 1]),
                                       source_index |-> i,
                                       original_line_number |-> NoNumber,
                                       line_number |-> NoNumber]))

\* Knitout_Program(codes): set_line(i) on every line, i its index in codes
Knitout_Program_of_codes(codes) ==
    [i \in 1..Len(codes) |-> [codes[i] EXCEPT !.original_line_number = IF @ = NoNumber THEN i - 1 ELSE @,
                                             !.line_number = i - 1]]

\* Knitout_Parser.parse_knitout_to_instructions: the program, or the raised error's index
parse_knitout_to_instructions(source_lines) ==
    LET r == ParseLinesFrom(source_lines, 0, <<>>)
    IN IF r.error # NoNumber THEN [program |-> <<>>, error |-> r.error]
       ELSE [program |-> Knitout_Program_of_codes(r.codes), error |-> NoNumber]

InitParser ==
    \E t \in SeqsUpTo(ParserLines, MaxParserLines) :
        round_trip = [stage |-> "text", text |-> t, program |-> <<>>, error |-> NoNumber]

ParseText ==
    /\ round_trip.stage = "text"
    /\ LET r == parse_knitout_to_instructions(round_trip.text)
       IN round_trip' = [round_trip EXCEPT !.stage = "parsed",
                                           !.program = r.program,
                                           !.error = r.error]
    /\ UNCHANGED <<varsCP, varsExec, varsProg, loop, machine_header, varsPure>>

NextParser == ParseText

InitSpecParser == InitParser /\ IdleCP /\ IdleExec /\ IdleProg /\ IdleLoop /\ IdleHeader /\ IdlePure

SpecParser == InitSpecParser /\ [][NextParser]_vars

\* the 0-based indices of the lines of the text that are not blank, in order
RECURSIVE NonBlankIndicesFrom(_, _)
NonBlankIndicesFrom(source_lines, i) ==
    IF i >= Len(source_lines) THEN <<>>
    ELSE IF IsBlank(source_lines[i + 1]) THEN NonBlankIndicesFrom(source_lines, i + 1)
    ELSE <<i>> \o NonBlankIndicesFrom(source_lines, i + 1)

InvalidIndices(source_lines) ==
    {i \in 0..(Len(source_lines) - 1) :
        ~IsBlank(source_lines[i + 1]) /\ IsSyntaxError(source_lines[i + 1])}

\* one line per non-blank source line, in order; the first invalid line raises with its
\* 0-based index in the text
ParserYieldsAndStops ==
    round_trip.stage = "parsed" =>
        IF InvalidIndices(round_trip.text) # {}
        THEN /\ round_trip.error \in InvalidIndices(round_trip.text)
             /\ \A i \in InvalidIndices(round_trip.text) : round_trip.error <= i
        ELSE /\ round_trip.error = NoNumber
             /\ [k \in 1..Len(round_trip.program) |-> round_trip.program[k].source_index]
                   = NonBlankIndicesFrom(round_trip.text, 0)

\* C39: the parser yields exactly one line per non-blank source line and stops at the
\* first syntactically invalid line with an error carrying that line's 0-based index in
\* the text; the original line number of each parsed line is its 0-based index in the
\* source text, so blank lines before a line do not shift it.
C39_ParserLineNumbers ==
    /\ ParserYieldsAndStops
    /\ round_trip.stage = "parsed" =>
          \A k \in 1..Len(round_trip.program) :
              round_trip.program[k].original_line_number = round_trip.program[k].source_index

\* what the code gives: the original line number of a parsed line is its index among the
\* parsed lines
OriginalLineNumberCountsParsedLines ==
    round_trip.stage = "parsed" =>
        \A k \in 1..Len(round_trip.program) :
            /\ round_trip.program[k].original_line_number = k - 1
            /\ round_trip.program[k].line_number = k - 1

====
